---- MODULE Spec2Model ----
(***************************************************************************)
(* EnVault: encryption at rest (packages/core crypto), the multi-key       *)
(* decryptValue wrapper of the API, and the master-key rotation script.    *)
(*                                                                         *)
(* Representation.  A JavaScript string is a sequence of UTF-16 code       *)
(* units, a Buffer is a sequence of bytes (0..255).  AES-256-GCM and       *)
(* scrypt are library calls: they are modelled as ideal primitives.  A     *)
(* key buffer is named by what it was made from (the 32 raw bytes of a     *)
(* direct key, or the password and salt given to scrypt), so two key       *)
(* buffers are equal exactly when they were made from the same material.   *)
(* The GCM authentication tag of (key, nonce, ciphertext) is a fresh       *)
(* 16-byte value handed out by the table gcm, which records every tag      *)
(* ever computed; a tag verifies only against the entry it was issued for. *)
(***************************************************************************)
EXTENDS Integers, Sequences, FiniteSets, TLC

VARIABLES
    MASTER_KEY,            \* process.env.ENVAULT_MASTER_KEY
    PREVIOUS_MASTER_KEYS,  \* parsed ENVAULT_MASTER_KEY_PREVIOUS
    gcm,                   \* tags issued so far: sequence of [key, nonce, ct]
    io,                    \* the crypto call under test and its outcome
    envVariable,           \* table EnvVariable: id -> [key, value]
    envVariableVersion,    \* table EnvVariableVersion: id -> [key, value]
    rot,                   \* the rotation script's control state
    api,                   \* what the API handlers wrote (observations)
    start                  \* the storage as it was when the run started

vars == <<MASTER_KEY, PREVIOUS_MASTER_KEYS, gcm, io, envVariable,
          envVariableVersion, rot, api, start>>

----------------------------------------------------------------------------
(* Program constants of the encryption module *)

NONCE_LENGTH == 12
TAG_LENGTH == 16
KEY_LENGTH == 32
SALT_LENGTH == 16

(* Bounds of the model *)

MaxRandom == 2      \* distinct outcomes of one randomBytes call
MaxVars == 3        \* EnvVariable rows when the run starts
MaxVersions == 2    \* EnvVariableVersion rows when the run starts
MaxBatch == 3       \* largest KEY_ROTATION_BATCH_SIZE
MaxApiCalls == 1    \* API requests served while the script runs
MaxOnlineVars == 2  \* EnvVariable rows at the start, with the API serving
MaxReruns == 1      \* times the rotation script is started again
MaxEntries == 2     \* entries in a list given to serializeEnv
MaxLines == 3       \* lines of a content given to parseEnv

----------------------------------------------------------------------------
(* Strings and buffers *)

Rep(c, n) == [i \in 1..n |-> c]

Slice(s, from, to) ==
    \* s.slice(from, to) / buf.subarray(from, to): 0-based, end-exclusive, clamped
    LET t == IF to > Len(s) THEN Len(s) ELSE to
    IN  IF from >= t THEN <<>> ELSE SubSeq(s, from + 1, t)

IsHighSurrogate(c) == c >= 55296 /\ c <= 56319
IsLowSurrogate(c) == c >= 56320 /\ c <= 57343

RECURSIVE Utf8Write(_, _)
Utf8Write(s, i) ==
    \* Buffer bytes of a string under the 'utf8' encoding; an unpaired
    \* surrogate is written as U+FFFD (EF BF BD)
    IF i > Len(s) THEN <<>>
    ELSE LET c == s[i] IN
         IF c < 128 THEN <<c>> \o Utf8Write(s, i + 1)
         ELSE IF c < 2048
              THEN <<192 + (c \div 64), 128 + (c % 64)>> \o Utf8Write(s, i + 1)
         ELSE IF IsHighSurrogate(c) /\ i < Len(s) /\ IsLowSurrogate(s[i + 1])
              THEN LET cp == 65536 + (c - 55296) * 1024 + (s[i + 1] - 56320)
                   IN  <<240 + (cp \div 262144), 128 + ((cp \div 4096) % 64),
                         128 + ((cp \div 64) % 64), 128 + (cp % 64)>>
                       \o Utf8Write(s, i + 2)
         ELSE IF IsHighSurrogate(c) \/ IsLowSurrogate(c)
              THEN <<239, 191, 189>> \o Utf8Write(s, i + 1)
         ELSE <<224 + (c \div 4096), 128 + ((c \div 64) % 64), 128 + (c % 64)>>
              \o Utf8Write(s, i + 1)

Utf8Encode(s) == CHOOSE b \in {Utf8Write(x, 1) : x \in {s}} : TRUE

IsCont(b, i) == i <= Len(b) /\ b[i] >= 128 /\ b[i] <= 191

RECURSIVE Utf8Read(_, _)
Utf8Read(b, i) ==
    \* buf.toString('utf8'): well-formed sequences become code units (a
    \* surrogate pair above U+FFFF), any other byte becomes U+FFFD
    IF i > Len(b) THEN <<>>
    ELSE LET c == b[i] IN
         IF c < 128 THEN <<c>> \o Utf8Read(b, i + 1)
         ELSE IF c >= 194 /\ c <= 223 /\ IsCont(b, i + 1)
              THEN <<(c - 192) * 64 + (b[i + 1] - 128)>> \o Utf8Read(b, i + 2)
         ELSE IF c >= 224 /\ c <= 239 /\ IsCont(b, i + 1) /\ IsCont(b, i + 2)
                 /\ (c = 224 => b[i + 1] >= 160) /\ (c = 237 => b[i + 1] <= 159)
              THEN <<(c - 224) * 4096 + (b[i + 1] - 128) * 64 + (b[i + 2] - 128)>>
                   \o Utf8Read(b, i + 3)
         ELSE IF c >= 240 /\ c <= 244 /\ IsCont(b, i + 1) /\ IsCont(b, i + 2)
                 /\ IsCont(b, i + 3)
                 /\ (c = 240 => b[i + 1] >= 144) /\ (c = 244 => b[i + 1] <= 143)
              THEN LET cp == (c - 240) * 262144 + (b[i + 1] - 128) * 4096
                             + (b[i + 2] - 128) * 64 + (b[i + 3] - 128)
                       v == cp - 65536
                   IN  <<55296 + (v \div 1024), 56320 + (v % 1024)>>
                       \o Utf8Read(b, i + 4)
         ELSE <<65533>> \o Utf8Read(b, i + 1)

Utf8Decode(b) == CHOOSE s \in {Utf8Read(x, 1) : x \in {b}} : TRUE

(* Hexadecimal: /^[a-f0-9]{64}$/i and Buffer.from(s, 'hex') *)

IsHexDigit(c) == (c >= 48 /\ c <= 57) \/ (c >= 97 /\ c <= 102) \/ (c >= 65 /\ c <= 70)

HexVal(c) == IF c <= 57 THEN c - 48 ELSE IF c >= 97 THEN c - 87 ELSE c - 55

IsHex64(s) == Len(s) = 64 /\ \A i \in 1..64 : IsHexDigit(s[i])

HexDecode(s) == [i \in 1..(Len(s) \div 2) |-> 16 * HexVal(s[2 * i - 1]) + HexVal(s[2 * i])]

(* Base64.  Buffer.from(s, 'base64') never throws: characters outside the  *)
(* alphabet are skipped, '-' and '_' are read as '+' and '/', decoding     *)
(* stops at the first '=', and a trailing partial group yields the bytes   *)
(* it completes.                                                           *)

Unbase64(c) ==
    IF c >= 65 /\ c <= 90 THEN c - 65
    ELSE IF c >= 97 /\ c <= 122 THEN c - 71
    ELSE IF c >= 48 /\ c <= 57 THEN c + 4
    ELSE IF c = 43 \/ c = 45 THEN 62
    ELSE IF c = 47 \/ c = 95 THEN 63
    ELSE -1

Base64Char(v) ==
    IF v < 26 THEN v + 65
    ELSE IF v < 52 THEN v + 71
    ELSE IF v < 62 THEN v - 4
    ELSE IF v = 62 THEN 43 ELSE 47

Sextets(s) ==
    \* the values of the alphabet's characters of s that precede its first '='
    LET stop == IF \E i \in 1..Len(s) : s[i] = 61
                THEN CHOOSE i \in 1..Len(s) : s[i] = 61 /\ \A j \in 1..(i - 1) : s[j] # 61
                ELSE Len(s) + 1
        legal == {i \in 1..(stop - 1) : Unbase64(s[i]) >= 0}
        Nth(k) == CHOOSE i \in legal : Cardinality({j \in legal : j < i}) = k - 1
    IN  IF Cardinality(legal) = stop - 1
        THEN [k \in 1..(stop - 1) |-> Unbase64(s[k])]
        ELSE [k \in 1..Cardinality(legal) |-> Unbase64(s[Nth(k)])]

SextetsToBytes(x) ==
    LET ByteAt(j) ==
            LET g == 4 * ((j - 1) \div 3)
                r == (j - 1) % 3
            IN  IF r = 0 THEN (x[g + 1] * 4 + (x[g + 2] \div 16)) % 256
                ELSE IF r = 1 THEN ((x[g + 2] % 16) * 16 + (x[g + 3] \div 4)) % 256
                ELSE ((x[g + 3] % 4) * 64 + x[g + 4]) % 256
    IN  [j \in 1..((Len(x) * 3) \div 4) |-> ByteAt(j)]

Base64Decode(s) ==
    CHOOSE b \in {SextetsToBytes(x) : x \in {Sextets(t) : t \in {s}}} : TRUE

Base64Encode(b) ==
    CHOOSE out \in {
        LET n == Len(x)
            At(j) == IF j <= n THEN x[j] ELSE 0
            CharAt(k) ==
                LET g == (k - 1) \div 4
                    r == (k - 1) % 4
                    b0 == At(3 * g + 1)
                    b1 == At(3 * g + 2)
                    b2 == At(3 * g + 3)
                IN  IF r = 0 THEN Base64Char(b0 \div 4)
                    ELSE IF r = 1 THEN Base64Char((b0 % 4) * 16 + (b1 \div 16))
                    ELSE IF r = 2
                         THEN IF 3 * g + 2 > n THEN 61
                              ELSE Base64Char((b1 % 16) * 4 + (b2 \div 64))
                    ELSE IF 3 * g + 3 > n THEN 61 ELSE Base64Char(b2 % 64)
        IN  [k \in 1..(4 * ((n + 2) \div 3)) |-> CharAt(k)] : x \in {b}} : TRUE

----------------------------------------------------------------------------
(* The random source.  randomBytes(n) has MaxRandom outcomes, picked by r. *)

randomBytes(n, r) == [i \in 1..n |-> (r * 41 + i * 7 + n) % 256]

----------------------------------------------------------------------------
(* Master keys: validation and classification *)

IsBase64Alpha(c) == Unbase64(c) >= 0 /\ c # 45 /\ c # 95

AllBase64Alpha(s, n) == Len(s) >= n /\ \A i \in 1..n : IsBase64Alpha(s[i])

validateMasterKey(masterKey) ==
    IF Len(masterKey) = 0
    THEN [valid |-> FALSE, error |-> "Master key is required"]
    ELSE IF IsHex64(masterKey) THEN [valid |-> TRUE, error |-> ""]
    ELSE IF \/ AllBase64Alpha(masterKey, 43)
               /\ (Len(masterKey) = 43 \/ (Len(masterKey) = 44 /\ masterKey[44] = 61))
            \/ AllBase64Alpha(masterKey, 42)
               /\ \/ (Len(masterKey) = 43 /\ masterKey[43] = 61)
                  \/ (Len(masterKey) = 44 /\ masterKey[43] = 61 /\ masterKey[44] = 61)
         THEN [valid |-> TRUE, error |-> ""]
    ELSE IF Len(masterKey) < 8
         THEN [valid |-> FALSE,
               error |-> "Master key must be at least 8 characters for passphrase derivation"]
    ELSE [valid |-> TRUE, error |-> ""]

isDirectKeyHexOnly(masterKey) == IsHex64(masterKey)

isDirectKey(masterKey) ==
    IF IsHex64(masterKey) THEN TRUE
    ELSE Len(Base64Decode(masterKey)) = KEY_LENGTH

RawKey(bytes) == [derived |-> FALSE, bytes |-> bytes, salt |-> <<>>]

scryptSync(password, salt) ==
    \* ideal key derivation: the derived key is named by (password, salt)
    [derived |-> TRUE, bytes |-> Utf8Encode(password), salt |-> salt]

deriveKey(masterKey, salt, r) ==
    \* salt = <<>> stands for the omitted argument
    LET useSalt == IF salt = <<>> THEN randomBytes(SALT_LENGTH, r) ELSE salt
    IN  [key |-> scryptSync(masterKey, useSalt), salt |-> useSalt]

getKeyBufferHexOnly(masterKey, salt, r) ==
    IF IsHex64(masterKey)
    THEN [key |-> RawKey(HexDecode(masterKey)), salt |-> <<>>]
    ELSE deriveKey(masterKey, salt, r)

getKeyBuffer(masterKey, salt, r) ==
    IF IsHex64(masterKey)
    THEN [key |-> RawKey(HexDecode(masterKey)), salt |-> <<>>]
    ELSE IF Len(Base64Decode(masterKey)) = KEY_LENGTH
         THEN [key |-> RawKey(Base64Decode(masterKey)), salt |-> <<>>]
    ELSE deriveKey(masterKey, salt, r)

----------------------------------------------------------------------------
(* AES-256-GCM as an ideal authenticated cipher *)

Keystream(key, nonce, i) ==
    (key.bytes[((i - 1) % Len(key.bytes)) + 1] + nonce[((i - 1) % Len(nonce)) + 1] + i) % 256

cipherUpdate(key, nonce, data) ==
    CHOOSE out \in {[i \in 1..Len(d) |-> (d[i] + Keystream(key, n, i)) % 256] :
                       d \in {data}, n \in {nonce}} : TRUE

decipherUpdate(key, nonce, data) ==
    CHOOSE out \in {[i \in 1..Len(d) |-> (d[i] + 256 - Keystream(key, n, i)) % 256] :
                       d \in {data}, n \in {nonce}} : TRUE

GcmIndex(table, key, nonce, ct) ==
    \* position of (key, nonce, ct) among the tags issued, 0 when absent
    LET hits == {n \in 1..Len(table) :
                    table[n].key = key /\ table[n].nonce = nonce /\ table[n].ct = ct}
    IN  IF hits = {} THEN 0 ELSE CHOOSE n \in hits : TRUE

GcmIssue(table, key, nonce, ct) ==
    IF GcmIndex(table, key, nonce, ct) # 0 THEN table
    ELSE Append(table, [key |-> key, nonce |-> nonce, ct |-> ct])

TagBytes(n) ==
    [i \in 1..TAG_LENGTH |-> IF i = 1 THEN (n \div 256) % 256
                             ELSE IF i = 2 THEN n % 256 ELSE (n * 29 + i * 13) % 256]

getAuthTag(table, key, nonce, ct) == TagBytes(GcmIndex(table, key, nonce, ct))

decipherFinalUnverified(table, key, nonce, ct, tag) == TRUE

decipherFinal(table, key, nonce, ct, tag) ==
    \* TRUE when the tag verifies; decipher.final() throws otherwise
    /\ GcmIndex(table, key, nonce, ct) # 0
    /\ tag = TagBytes(GcmIndex(table, key, nonce, ct))

----------------------------------------------------------------------------
(* encrypt / decrypt of the core package *)

Thrown(name, message) == [ok |-> FALSE, value |-> <<>>, error |-> name, message |-> message]

Returned(value) == [ok |-> TRUE, value |-> value, error |-> "", message |-> ""]

cipher(data, kb, nonce, table) ==
    \* createCipheriv, update, final, getAuthTag and the blob's layout
    LET ciphertext == cipherUpdate(kb.key, nonce, data)
        issued == GcmIssue(table, kb.key, nonce, ciphertext)
        tag == getAuthTag(issued, kb.key, nonce, ciphertext)
        combined == IF kb.salt # <<>> THEN kb.salt \o nonce \o tag \o ciphertext
                    ELSE nonce \o tag \o ciphertext
    IN  [blob |-> Base64Encode(combined), gcm |-> issued]

encrypt(plaintext, masterKey, rNonce, rSalt, table) ==
    \* the blob and the tag table after the call
    CHOOSE e \in {cipher(data, kb, nonce, table) :
                     data \in {Utf8Encode(plaintext)},
                     kb \in {getKeyBuffer(masterKey, <<>>, rSalt)},
                     nonce \in {randomBytes(NONCE_LENGTH, rNonce)}} : TRUE

decipher(combined, offset, key, table) ==
    \* createDecipheriv, setAuthTag, update and final on the blob's slices
    CHOOSE r \in {IF decipherFinal(table, key, nonce, ciphertext, tag)
                  THEN Returned(Utf8Decode(decipherUpdate(key, nonce, ciphertext)))
                  ELSE Thrown("DecryptionError",
                              "Decryption failed: invalid key or corrupted data") :
                     nonce \in {Slice(combined, offset, offset + NONCE_LENGTH)},
                     tag \in {Slice(combined, offset + NONCE_LENGTH,
                                    offset + NONCE_LENGTH + TAG_LENGTH)},
                     ciphertext \in {Slice(combined, offset + NONCE_LENGTH + TAG_LENGTH,
                                           Len(combined))}} : TRUE

decryptBuffer(combined, masterKey, direct, table) ==
    LET offset == IF direct THEN 0 ELSE SALT_LENGTH
        salt == IF direct THEN <<>> ELSE Slice(combined, 0, SALT_LENGTH)
    IN  IF Len(combined) < NONCE_LENGTH + TAG_LENGTH
        THEN Thrown("DecryptionError", "Invalid encrypted data: too short")
        ELSE IF ~direct /\ Len(combined) < SALT_LENGTH + NONCE_LENGTH + TAG_LENGTH
             THEN Thrown("DecryptionError",
                         "Invalid encrypted data: too short for passphrase mode")
        ELSE CHOOSE r \in {decipher(combined, offset, key, table) :
                              key \in {getKeyBuffer(masterKey, salt, 0).key}} : TRUE

decrypt(encrypted, masterKey, table) ==
    CHOOSE r \in {decryptBuffer(combined, masterKey, direct, table) :
                     combined \in {Base64Decode(encrypted)},
                     direct \in {isDirectKey(masterKey)}} : TRUE

----------------------------------------------------------------------------
(* encryptValue / decryptValue of the API (apps/api/src/crypto.ts) *)

candidateKeysActiveOnly == <<MASTER_KEY>>

candidateKeysPreviousOnly == PREVIOUS_MASTER_KEYS

candidateKeys == <<MASTER_KEY>> \o PREVIOUS_MASTER_KEYS

encryptValueStoresPlaintext(plaintext, rNonce, rSalt, table) ==
    [blob |-> plaintext, gcm |-> table]

encryptValue(plaintext, rNonce, rSalt, table) ==
    encrypt(plaintext, MASTER_KEY, rNonce, rSalt, table)

RECURSIVE decryptLoopFirstError(_, _, _, _, _)
decryptLoopFirstError(ciphertext, keys, i, lastError, table) ==
    IF i > Len(keys)
    THEN [result |-> lastError, tried |-> i - 1]
    ELSE LET r == decrypt(ciphertext, keys[i], table)
         IN  IF r.ok THEN [result |-> r, tried |-> i]
             ELSE decryptLoopFirstError(ciphertext, keys, i + 1,
                                        IF lastError.error # "" THEN lastError ELSE r, table)

RECURSIVE decryptLoop(_, _, _, _, _)
decryptLoop(ciphertext, keys, i, lastError, table) ==
    \* the for loop of decryptValue from the i-th candidate on; tried counts
    \* the candidates decrypt was called with
    IF i > Len(keys)
    THEN [result |-> IF lastError.error # "" THEN lastError
                     ELSE Thrown("Error", "Failed to decrypt value with configured master keys"),
          tried |-> i - 1]
    ELSE LET r == decrypt(ciphertext, keys[i], table)
         IN  IF r.ok THEN [result |-> r, tried |-> i]
             ELSE decryptLoop(ciphertext, keys, i + 1, r, table)

decryptValue(ciphertext, table) ==
    decryptLoop(ciphertext, candidateKeys, 1, Returned(<<>>), table).result

decryptValueTried(ciphertext, table) ==
    decryptLoop(ciphertext, candidateKeys, 1, Returned(<<>>), table).tried

----------------------------------------------------------------------------
(* Inputs: master keys of the three shapes, plaintexts, key configurations *)

HexA == Rep(97, 64)        \* 'a'.repeat(64), the key of the crypto tests
HexAUpper == Rep(65, 64)   \* 'A'.repeat(64): the same 32 bytes, other spelling
HexB == Rep(98, 64)        \* 'b'.repeat(64), the wrong key of the crypto tests
Base64A == Rep(113, 42) \o <<111, 61>>
    \* "qqqq...qqo=", base64 of thirty-two 0xaa bytes (the bytes of HexA)
Base64T == [i \in 1..40 |-> <<89, 87, 70, 104>>[((i - 1) % 4) + 1]] \o <<89, 87, 69, 61>>
    \* "YWFhYWFh...YWE=", the base64 key of the crypto tests
PassA == <<109, 121, 95, 115, 101, 99, 117, 114, 101, 95, 112, 97, 115, 115>>
    \* "my_secure_pass"
PassB == <<99, 111, 114, 114, 101, 99, 116, 32, 104, 111, 114, 115, 101>>
    \* "correct horse"


Keys == {HexA, HexAUpper, HexB, Base64A, Base64T, PassA, PassB}

Plaintexts ==
    { <<>>,                      \* ''
      <<97>>,                    \* 'a'
      <<233>>,                   \* U+00E9, two bytes of UTF-8
      <<19990>>,                 \* U+4E16, three bytes
      <<55356, 57101>>,          \* U+1F30D as a surrogate pair, four bytes
      <<55357>>,                 \* a high surrogate on its own
      Rep(115, 16) }             \* sixteen characters

WellFormed(s) ==
    \* no unpaired surrogate
    \A i \in 1..Len(s) :
        /\ IsHighSurrogate(s[i]) => (i < Len(s) /\ IsLowSurrogate(s[i + 1]))
        /\ IsLowSurrogate(s[i]) => (i > 1 /\ IsHighSurrogate(s[i - 1]))

Configs ==
    \* ENVAULT_MASTER_KEY and ENVAULT_MASTER_KEY_PREVIOUS, and a key that was
    \* once in use and is configured no longer
    { [active |-> HexB, previous |-> <<HexA, PassA>>, retired |-> Base64T],
      [active |-> PassB, previous |-> <<Base64T, HexB>>, retired |-> HexA],
      [active |-> Base64T, previous |-> <<>>, retired |-> PassA] }

ConfigValid(c) ==
    \* crypto.ts exits at load unless every configured key validates
    /\ validateMasterKey(c.active).valid
    /\ \A i \in 1..Len(c.previous) : validateMasterKey(c.previous[i]).valid

Randoms == 0..(MaxRandom - 1)

----------------------------------------------------------------------------
(* The crypto functions called on drawn inputs *)

NoResult == Returned(<<>>)

IoIdle == [op |-> "idle", plaintext |-> <<>>, key |-> <<>>, blob |-> <<>>, orig |-> <<>>,
           changed |-> "none", key2 |-> <<>>, result |-> NoResult, tried |-> 0]

ApiIdle == [calls |-> 0, writes |-> {}, limit |-> MaxApiCalls]

RotIdle ==
    [pc |-> "idle", BATCH_SIZE |-> 200, DRY_RUN |-> FALSE, seed |-> 0, cursor |-> 0,
     rotated |-> 0, hasMore |-> TRUE, batch |-> <<>>, idx |-> 0, envVarCount |-> -1,
     versionCount |-> -1, exitCode |-> 0, error |-> NoResult, completed |-> FALSE,
     visitedVars |-> <<>>, visitedVers |-> <<>>, prior |-> <<>>]

InitCrypto ==
    /\ \E c \in Configs :
          /\ ConfigValid(c)
          /\ MASTER_KEY = c.active
          /\ PREVIOUS_MASTER_KEYS = c.previous
    /\ gcm = <<>>
    /\ \E p \in Plaintexts, k \in Keys :
          /\ validateMasterKey(k).valid
          /\ io = [IoIdle EXCEPT !.op = "input", !.plaintext = p, !.key = k]
    /\ envVariable = <<>>
    /\ envVariableVersion = <<>>
    /\ rot = RotIdle
    /\ api = ApiIdle
    /\ start = [vars |-> <<>>, vers |-> <<>>]

StoreUnchanged == UNCHANGED <<MASTER_KEY, PREVIOUS_MASTER_KEYS, envVariable,
                              envVariableVersion, rot, api, start>>

CallEncrypt(rNonce, rSalt) ==
    /\ io.op = "input"
    /\ LET e == encrypt(io.plaintext, io.key, rNonce, rSalt, gcm)
       IN  /\ io' = [io EXCEPT !.op = "encrypt", !.blob = e.blob, !.orig = e.blob]
           /\ gcm' = e.gcm
    /\ StoreUnchanged

CallEncryptValue(rNonce, rSalt) ==
    /\ io.op = "input"
    /\ LET e == encryptValue(io.plaintext, rNonce, rSalt, gcm)
       IN  /\ io' = [io EXCEPT !.op = "encryptValue", !.key = MASTER_KEY,
                                !.blob = e.blob, !.orig = e.blob]
           /\ gcm' = e.gcm
    /\ StoreUnchanged

BlobOffset(masterKey) ==
    \* where the ciphertext portion of a blob made with masterKey starts
    (IF isDirectKey(masterKey) THEN 0 ELSE SALT_LENGTH) + NONCE_LENGTH + TAG_LENGTH

Tamper(i, d) ==
    \* one byte of the ciphertext portion is changed
    /\ io.op \in {"encrypt", "encryptValue"}
    /\ io.changed = "none"
    /\ LET combined == Base64Decode(io.blob)
       IN  /\ i > BlobOffset(io.key)
           /\ i <= Len(combined)
           /\ io' = [io EXCEPT !.changed = "tamper",
                        !.blob = Base64Encode([combined EXCEPT ![i] = (@ + d) % 256])]
    /\ UNCHANGED gcm
    /\ StoreUnchanged

Truncate(n) ==
    \* encrypted.slice(0, n) with n below the length
    /\ io.op \in {"encrypt", "encryptValue"}
    /\ io.changed = "none"
    /\ n < Len(io.blob)
    /\ io' = [io EXCEPT !.changed = "truncate", !.blob = Slice(io.blob, 0, n)]
    /\ UNCHANGED gcm
    /\ StoreUnchanged

CallDecrypt(k2) ==
    /\ io.op \in {"encrypt", "encryptValue"}
    /\ io.changed # "none" => k2 = io.key
    /\ io' = [io EXCEPT !.op = "decrypt", !.key2 = k2, !.result = decrypt(io.blob, k2, gcm)]
    /\ UNCHANGED gcm
    /\ StoreUnchanged

CallDecryptValue ==
    /\ io.op \in {"encrypt", "encryptValue"}
    /\ io.changed = "none"
    /\ io' = [io EXCEPT !.op = "decryptValue", !.result = decryptValue(io.blob, gcm),
                        !.tried = decryptValueTried(io.blob, gcm)]
    /\ UNCHANGED gcm
    /\ StoreUnchanged

MaxBlobLen == 4 * ((SALT_LENGTH + NONCE_LENGTH + TAG_LENGTH + 16 + 2) \div 3)

NextCrypto ==
    \/ \E rNonce \in Randoms, rSalt \in Randoms : CallEncrypt(rNonce, rSalt)
    \/ \E rNonce \in Randoms, rSalt \in Randoms : CallEncryptValue(rNonce, rSalt)
    \/ \E i \in 1..(SALT_LENGTH + NONCE_LENGTH + TAG_LENGTH + 16), d \in {1, 255} : Tamper(i, d)
    \/ \E n \in 0..MaxBlobLen : Truncate(n)
    \/ \E k2 \in Keys : CallDecrypt(k2)
    \/ CallDecryptValue

SpecCrypto == InitCrypto /\ [][NextCrypto]_vars

----------------------------------------------------------------------------
(* Storage: the tables EnvVariable and EnvVariableVersion, keyed by id *)

Ids(table) == DOMAIN table

RECURSIVE SortedIds(_)
SortedIds(S) ==
    \* orderBy: { id: 'asc' }
    IF S = {} THEN <<>>
    ELSE LET m == CHOOSE x \in S : \A y \in S : x <= y
         IN  <<m>> \o SortedIds(S \ {m})

findManySkipTwo(table, cursor, take) ==
    LET from == IF cursor = 0 THEN Ids(table)
                ELSE IF cursor \in Ids(table) THEN {x \in Ids(table) : x > cursor}
                ELSE {}
        ids == Slice(SortedIds(from), IF cursor = 0 THEN 0 ELSE 1, take + 1)
    IN  [i \in 1..Len(ids) |-> [id |-> ids[i], value |-> table[ids[i]].value]]

findMany(table, cursor, take) ==
    \* findMany({ orderBy: { id: 'asc' }, take, cursor: { id: cursor }, skip: 1 });
    \* cursor 0 stands for no cursor; a cursor naming no row yields no rows
    LET from == IF cursor = 0 THEN Ids(table)
                ELSE IF cursor \in Ids(table) THEN {x \in Ids(table) : x > cursor}
                ELSE {}
        ids == Slice(SortedIds(from), 0, take)
    IN  [i \in 1..Len(ids) |-> [id |-> ids[i], value |-> table[ids[i]].value]]

updateDropped(table, id, value) == table

update(table, id, value) == [table EXCEPT ![id].value = value]

----------------------------------------------------------------------------
(* The storage a run starts from.  Row n (EnvVariable rows first, then     *)
(* EnvVariableVersion rows) holds PlainOf(n), encrypted under one of the   *)
(* configured keys, or under the retired key when n = bad.                 *)

PlainSeq == <<<<97>>, <<19990>>, Rep(115, 16), <<>>, <<55356, 57101>>, <<233>>>>

PlainOf(n) == PlainSeq[((n - 1) % Len(PlainSeq)) + 1]

VarKey(n) == <<75, 48 + n>>   \* the variable's name: 'K1', 'K2', ...

RowKey(c, n, bad) ==
    LET keys == <<c.active>> \o c.previous
    IN  IF n = bad THEN c.retired ELSE keys[(n % Len(keys)) + 1]

RECURSIVE Seeded(_, _, _, _, _)
Seeded(c, n, total, bad, acc) ==
    \* acc: [blobs, gcm] after rows 1..n-1 were written
    IF n > total THEN acc
    ELSE LET e == encrypt(PlainOf(n), RowKey(c, n, bad), n % MaxRandom, n % MaxRandom, acc.gcm)
         IN  Seeded(c, n + 1, total, bad, [blobs |-> Append(acc.blobs, e.blob), gcm |-> e.gcm])

InitStore(c, nVars, nVers, bad) ==
    LET s == Seeded(c, 1, nVars + nVers, bad, [blobs |-> <<>>, gcm |-> <<>>])
    IN  /\ gcm = s.gcm
        /\ envVariable = [id \in {2 * n : n \in 1..nVars} |->
                             [key |-> VarKey(id \div 2), value |-> s.blobs[id \div 2]]]
        /\ envVariableVersion = [id \in {2 * n : n \in 1..nVers} |->
                             [key |-> VarKey(((id \div 2 - 1) % (nVars + 1)) + 1),
                              value |-> s.blobs[nVars + id \div 2]]]

Plain(table, id) == decryptValue(table[id].value, gcm)

InitRotate ==
    /\ \E c \in Configs :
          /\ ConfigValid(c)
          /\ MASTER_KEY = c.active
          /\ PREVIOUS_MASTER_KEYS = c.previous
          /\ \E nVars \in 0..MaxVars, nVers \in 0..MaxVersions :
                \E bad \in 0..(nVars + nVers) : InitStore(c, nVars, nVers, bad)
    /\ io = IoIdle
    /\ \E b \in 1..MaxBatch, dry \in BOOLEAN :
          rot = [RotIdle EXCEPT !.BATCH_SIZE = b, !.DRY_RUN = dry]
    /\ api = ApiIdle
    /\ start = [vars |-> envVariable, vers |-> envVariableVersion]

----------------------------------------------------------------------------
(* scripts/rotate-master-key.ts.  Every await is a step: the script reads  *)
(* a batch, then decrypts, re-encrypts and writes one row per step.        *)

ItemRandom(id) == (rot.seed + id) % MaxRandom

writeBackAlways(table, id, value) == update(table, id, value)

writeBack(table, id, value) ==
    \* if (!DRY_RUN) { await prisma.<table>.update(...) }
    IF rot.DRY_RUN THEN table ELSE update(table, id, value)

FailExitZero(e) == [rot EXCEPT !.pc = "failed", !.error = e]

Fail(e) ==
    \* the exception leaves main: console.error and process.exitCode = 1
    [rot EXCEPT !.pc = "failed", !.exitCode = 1, !.error = e]

main ==
    \* main() is entered: rotateEnvVariables starts with no cursor
    /\ rot.pc = "idle"
    /\ rot' = [rot EXCEPT !.pc = "varsFind", !.cursor = 0, !.rotated = 0, !.hasMore = TRUE]
    /\ UNCHANGED <<MASTER_KEY, PREVIOUS_MASTER_KEYS, gcm, io, envVariable,
                   envVariableVersion, api, start>>

AfterItem(r, visitedField, findPc) ==
    \* rotated += 1 and, past the last item of the batch, the loop's tail;
    \* pc "return" when the while loop ends
    LET counted == [r EXCEPT !.rotated = @ + 1,
                             ![visitedField] = Append(@, r.batch[r.idx].id)]
        last == r.batch[Len(r.batch)].id
        more == Len(r.batch) = r.BATCH_SIZE
    IN  IF r.idx < Len(r.batch) THEN [counted EXCEPT !.idx = @ + 1]
        ELSE IF more
             THEN [counted EXCEPT !.pc = findPc, !.cursor = last, !.hasMore = TRUE,
                                  !.batch = <<>>, !.idx = 0]
        ELSE [counted EXCEPT !.pc = "return", !.cursor = last, !.hasMore = FALSE,
                             !.batch = <<>>, !.idx = 0]

ReturnEnvVarCount(r) ==
    \* rotateEnvVariables returns; main logs the count and enters
    \* rotateEnvVariableVersions
    [r EXCEPT !.pc = "versFind", !.envVarCount = r.rotated, !.cursor = 0,
              !.rotated = 0, !.hasMore = TRUE]

ReturnVersionCount(r) ==
    \* rotateEnvVariableVersions returns; main logs 'Completed successfully'
    [r EXCEPT !.pc = "done", !.versionCount = r.rotated, !.completed = TRUE]

rotateEnvVariables_findMany ==
    /\ rot.pc = "varsFind"
    /\ LET batch == findMany(envVariable, rot.cursor, rot.BATCH_SIZE)
       IN  rot' = IF Len(batch) = 0
                  THEN ReturnEnvVarCount([rot EXCEPT !.hasMore = FALSE])
                  ELSE [rot EXCEPT !.pc = "varsItem", !.batch = batch, !.idx = 1]
    /\ UNCHANGED <<MASTER_KEY, PREVIOUS_MASTER_KEYS, gcm, io, envVariable,
                   envVariableVersion, api, start>>

rotateEnvVariables_item ==
    /\ rot.pc = "varsItem"
    /\ \E item \in {rot.batch[rot.idx]} :
       \E plaintext \in {decryptValue(item.value, gcm)} :
          IF ~plaintext.ok
          THEN /\ rot' = Fail(plaintext)
               /\ UNCHANGED <<gcm, envVariable>>
          ELSE \E reEncrypted \in {encryptValue(plaintext.value, ItemRandom(item.id),
                                                ItemRandom(item.id), gcm)} :
                  /\ gcm' = reEncrypted.gcm
                  /\ IF ~rot.DRY_RUN /\ item.id \notin Ids(envVariable)
                     THEN /\ rot' = Fail(Thrown("PrismaClientKnownRequestError",
                                                "Record to update not found"))
                          /\ UNCHANGED envVariable
                     ELSE /\ envVariable' = writeBack(envVariable, item.id, reEncrypted.blob)
                          /\ rot' = LET r == AfterItem(rot, "visitedVars", "varsFind")
                                    IN  IF r.pc = "return" THEN ReturnEnvVarCount(r) ELSE r
    /\ UNCHANGED <<MASTER_KEY, PREVIOUS_MASTER_KEYS, io, envVariableVersion, api, start>>

rotateEnvVariableVersions_findMany ==
    /\ rot.pc = "versFind"
    /\ LET batch == findMany(envVariableVersion, rot.cursor, rot.BATCH_SIZE)
       IN  rot' = IF Len(batch) = 0
                  THEN ReturnVersionCount([rot EXCEPT !.hasMore = FALSE])
                  ELSE [rot EXCEPT !.pc = "versItem", !.batch = batch, !.idx = 1]
    /\ UNCHANGED <<MASTER_KEY, PREVIOUS_MASTER_KEYS, gcm, io, envVariable,
                   envVariableVersion, api, start>>

rotateEnvVariableVersions_item ==
    /\ rot.pc = "versItem"
    /\ \E item \in {rot.batch[rot.idx]} :
       \E plaintext \in {decryptValue(item.value, gcm)} :
          IF ~plaintext.ok
          THEN /\ rot' = Fail(plaintext)
               /\ UNCHANGED <<gcm, envVariableVersion>>
          ELSE \E reEncrypted \in {encryptValue(plaintext.value, ItemRandom(item.id),
                                                ItemRandom(item.id), gcm)} :
                  /\ gcm' = reEncrypted.gcm
                  /\ IF ~rot.DRY_RUN /\ item.id \notin Ids(envVariableVersion)
                     THEN /\ rot' = Fail(Thrown("PrismaClientKnownRequestError",
                                                "Record to update not found"))
                          /\ UNCHANGED envVariableVersion
                     ELSE /\ envVariableVersion' = writeBack(envVariableVersion, item.id, reEncrypted.blob)
                          /\ rot' = LET r == AfterItem(rot, "visitedVers", "versFind")
                                    IN  IF r.pc = "return" THEN ReturnVersionCount(r) ELSE r
    /\ UNCHANGED <<MASTER_KEY, PREVIOUS_MASTER_KEYS, io, envVariable, api, start>>

Rotate ==
    \/ main
    \/ rotateEnvVariables_findMany
    \/ rotateEnvVariables_item
    \/ rotateEnvVariableVersions_findMany
    \/ rotateEnvVariableVersions_item

NextRotate == Rotate

SpecRotate == InitRotate /\ [][NextRotate]_vars

FairSpecRotate == SpecRotate /\ WF_vars(Rotate)

----------------------------------------------------------------------------
(* routes/environments.ts: the handlers that write variable values.  A     *)
(* handler runs as one step.  Ids are cuids, which sort by creation time:  *)
(* a new row's id is above every id present.                               *)

Max(S) == IF S = {} THEN 0 ELSE CHOOSE x \in S : \A y \in S : y <= x

NewId(table) == Max(Ids(table) \cup Ids(start.vars) \cup Ids(start.vers)) + 1

findUnique(table, key) ==
    \* the id of the variable named key, 0 when there is none
    IF \E id \in Ids(table) : table[id].key = key
    THEN CHOOSE id \in Ids(table) : table[id].key = key
    ELSE 0

create(table, id, key, value) ==
    [x \in Ids(table) \cup {id} |-> IF x = id THEN [key |-> key, value |-> value]
                                    ELSE table[x]]

delete(table, id) == [x \in Ids(table) \ {id} |-> table[x]]

createVersionSnapshot(key, value) ==
    create(envVariableVersion, NewId(envVariableVersion), key, value)

Written(variableValues, versionValues) ==
    \* the request is counted and the values it stored in each table are
    \* noted, with the script's position at the time
    [api EXCEPT !.calls = @ + 1,
                !.writes = @ \cup {[table |-> "EnvVariable", value |-> v, pc |-> rot.pc] :
                                       v \in variableValues}
                             \cup {[table |-> "EnvVariableVersion", value |-> v,
                                    pc |-> rot.pc] : v \in versionValues}]

ApiUnchanged == UNCHANGED <<MASTER_KEY, PREVIOUS_MASTER_KEYS, io, rot, start>>

ApiValue == <<110, 101, 119>>   \* 'new'

upsertVariable(key, rNonce, rSalt) ==
    \* PUT /projects/:id/envs/:env/vars/:key
    /\ api.calls < api.limit
    /\ LET e == encryptValue(ApiValue, rNonce, rSalt, gcm)
           existing == findUnique(envVariable, key)
       IN  /\ gcm' = e.gcm
           /\ IF existing # 0
              THEN /\ envVariableVersion' =
                          createVersionSnapshot(key, envVariable[existing].value)
                   /\ envVariable' = update(envVariable, existing, e.blob)
                   /\ api' = Written({e.blob}, {envVariable[existing].value})
              ELSE /\ envVariable' = create(envVariable, NewId(envVariable), key, e.blob)
                   /\ envVariableVersion' = createVersionSnapshot(key, e.blob)
                   /\ api' = Written({e.blob}, {e.blob})
    /\ ApiUnchanged

deleteVariable(key) ==
    \* DELETE /projects/:id/envs/:env/vars/:key
    /\ api.calls < api.limit
    /\ LET variable == findUnique(envVariable, key)
       IN  /\ variable # 0
           /\ envVariableVersion' = createVersionSnapshot(key, envVariable[variable].value)
           /\ envVariable' = delete(envVariable, variable)
           /\ api' = Written({}, {envVariable[variable].value})
    /\ UNCHANGED gcm
    /\ ApiUnchanged

restoreVariable(key, versionId) ==
    \* POST /projects/:id/envs/:env/vars/:key/restore with a versionId
    /\ api.calls < api.limit
    /\ versionId \in Ids(envVariableVersion)
    /\ envVariableVersion[versionId].key = key
    /\ LET variable == findUnique(envVariable, key)
           targetVersion == envVariableVersion[versionId]
       IN  IF variable # 0
           THEN /\ envVariableVersion' =
                       createVersionSnapshot(key, envVariable[variable].value)
                /\ envVariable' = update(envVariable, variable, targetVersion.value)
                /\ api' = Written({targetVersion.value}, {envVariable[variable].value})
           ELSE /\ envVariable' = create(envVariable, NewId(envVariable), key,
                                         targetVersion.value)
                /\ UNCHANGED envVariableVersion
                /\ api' = Written({targetVersion.value}, {})
    /\ UNCHANGED gcm
    /\ ApiUnchanged

VarKeys == {VarKey(n) : n \in 1..(MaxOnlineVars + 1)}

Api ==
    \/ \E key \in VarKeys, r \in Randoms : upsertVariable(key, r, r)
    \/ \E key \in VarKeys : deleteVariable(key)
    \/ \E key \in VarKeys, versionId \in 1..(2 * MaxVersions + MaxApiCalls + 2 * MaxOnlineVars) :
          restoreVariable(key, versionId)

InitOnline ==
    \* a run in execute mode over a readable store, with the API serving
    /\ \E c \in Configs :
          /\ ConfigValid(c)
          /\ MASTER_KEY = c.active
          /\ PREVIOUS_MASTER_KEYS = c.previous
          /\ \E nVars \in 1..MaxOnlineVars, nVers \in 1..MaxVersions :
                InitStore(c, nVars, nVers, 0)
    /\ io = IoIdle
    /\ \E b \in 1..MaxBatch, seed \in Randoms :
          rot = [RotIdle EXCEPT !.BATCH_SIZE = b, !.DRY_RUN = FALSE, !.seed = seed]
    /\ api = ApiIdle
    /\ start = [vars |-> envVariable, vers |-> envVariableVersion]

NextOnline == Rotate \/ Api

SpecOnline == InitOnline /\ [][NextOnline]_vars

----------------------------------------------------------------------------
(* The script started again after a run that ended, and runs cut short by  *)
(* a database error at one of the awaits.                                  *)

databaseError ==
    \* a prisma call rejects: the exception leaves main
    /\ rot.pc \in {"varsFind", "varsItem", "versFind", "versItem"}
    /\ rot' = Fail(Thrown("PrismaClientInitializationError",
                          "Can't reach database server"))
    /\ UNCHANGED <<MASTER_KEY, PREVIOUS_MASTER_KEYS, gcm, io, envVariable,
                   envVariableVersion, api, start>>

rerun ==
    \* a new process with the same environment: module state is fresh
    /\ rot.pc \in {"done", "failed"}
    /\ Len(rot.prior) < MaxReruns
    /\ rot' = [RotIdle EXCEPT !.pc = "varsFind", !.BATCH_SIZE = rot.BATCH_SIZE,
                              !.DRY_RUN = rot.DRY_RUN,
                              !.seed = (rot.seed + 1) % MaxRandom,
                              !.prior = Append(rot.prior,
                                  [pc |-> rot.pc, visitedVars |-> rot.visitedVars,
                                   visitedVers |-> rot.visitedVers])]
    /\ UNCHANGED <<MASTER_KEY, PREVIOUS_MASTER_KEYS, gcm, io, envVariable,
                   envVariableVersion, api, start>>

NextRerun == Rotate \/ databaseError \/ rerun

SpecRerun == InitRotate /\ [][NextRerun]_vars

----------------------------------------------------------------------------
(* The .env codec of the core package (parser): parseEnv, serializeEnv.    *)

undefined == <<-1>>   \* the value of an absent optional field

IsSpace(c) ==
    \* String.prototype.trim and the regular expression class \s
    \/ c \in {9, 10, 11, 12, 13, 32, 160, 5760, 8232, 8233, 8239, 8287, 12288, 65279}
    \/ (c >= 8192 /\ c <= 8202)

Min(S) == CHOOSE x \in S : \A y \in S : x <= y

trim(s) ==
    LET idx == {i \in 1..Len(s) : ~IsSpace(s[i])}
    IN  IF idx = {} THEN <<>> ELSE SubSeq(s, Min(idx), Max(idx))

trimEnd(s) ==
    LET idx == {i \in 1..Len(s) : ~IsSpace(s[i])}
    IN  IF idx = {} THEN <<>> ELSE SubSeq(s, 1, Max(idx))

startsWith(s, pat) == Len(s) >= Len(pat) /\ SubSeq(s, 1, Len(pat)) = pat

endsWith(s, pat) == Len(s) >= Len(pat) /\ SubSeq(s, Len(s) - Len(pat) + 1, Len(s)) = pat

indexOf(s, pat) ==
    \* 0-based, -1 when pat does not occur
    LET hits == {i \in 1..(Len(s) - Len(pat) + 1) : SubSeq(s, i, i + Len(pat) - 1) = pat}
    IN  IF hits = {} THEN -1 ELSE Min(hits) - 1

includes(s, pat) == indexOf(s, pat) # -1

RECURSIVE split(_, _)
split(s, sep) ==
    \* s.split(sep) for a one-character separator
    LET at == indexOf(s, <<sep>>)
    IN  IF at = -1 THEN <<s>>
        ELSE <<Slice(s, 0, at)>> \o split(Slice(s, at + 1, Len(s)), sep)

RECURSIVE join(_, _)
join(lines, sep) ==
    IF Len(lines) = 0 THEN <<>>
    ELSE IF Len(lines) = 1 THEN lines[1]
    ELSE lines[1] \o <<sep>> \o join(Tail(lines), sep)

RECURSIVE replaceFrom(_, _, _, _)
replaceFrom(s, pat, by, i) ==
    \* s.replace(/pat/g, by) from position i on: leftmost matches, not overlapping
    IF i > Len(s) THEN <<>>
    ELSE IF i + Len(pat) - 1 <= Len(s) /\ SubSeq(s, i, i + Len(pat) - 1) = pat
         THEN by \o replaceFrom(s, pat, by, i + Len(pat))
    ELSE <<s[i]>> \o replaceFrom(s, pat, by, i + 1)

replace(s, pat, by) == CHOOSE r \in {replaceFrom(x, pat, by, 1) : x \in {s}} : TRUE

parseValueUnescaped(inner) ==
    \* the four replace calls of the double-quoted branch, in the code's order
    CHOOSE r \in {replace(c, <<92, 92>>, <<92>>) :
                     c \in {replace(b, <<92, 116>>, <<9>>) :
                               b \in {replace(a, <<92, 110>>, <<10>>) :
                                         a \in {replace(inner, <<92, 34>>, <<34>>)}}}} : TRUE

parseValueTrimmed(trimmed) ==
    IF startsWith(trimmed, <<34>>) /\ endsWith(trimmed, <<34>>) /\ Len(trimmed) > 1
    THEN parseValueUnescaped(Slice(trimmed, 1, Len(trimmed) - 1))
    ELSE IF startsWith(trimmed, <<39>>) /\ endsWith(trimmed, <<39>>) /\ Len(trimmed) > 1
         THEN Slice(trimmed, 1, Len(trimmed) - 1)
    ELSE IF indexOf(trimmed, <<32, 35>>) # -1
         THEN trim(Slice(trimmed, 0, indexOf(trimmed, <<32, 35>>)))
    ELSE trimmed

parseValue(value) == CHOOSE r \in {parseValueTrimmed(t) : t \in {trim(value)}} : TRUE

orUndefined(s) == IF s = <<>> THEN undefined ELSE s   \* s || undefined

truthy(s) == s # undefined /\ s # <<>>

EnvEntry(key, value, comment, originalLine) ==
    [key |-> key, value |-> value, comment |-> comment, originalLine |-> originalLine]

mapSet(map, key, entry) ==
    [k \in DOMAIN map \cup {key} |-> IF k = key THEN entry ELSE map[k]]

keysPush(keys, key) ==
    IF \E i \in 1..Len(keys) : keys[i] = key THEN keys ELSE Append(keys, key)

parseLine(acc, originalLine, trimmed, options) ==
    \* one iteration of the for loop of parseEnv; acc holds entries, map,
    \* keys and currentComment
    IF trimmed = <<>>
    THEN [acc EXCEPT
            !.entries = IF options.preserveEmptyLines
                        THEN Append(@, EnvEntry(<<>>, <<>>, orUndefined(acc.currentComment), <<>>))
                        ELSE @,
            !.currentComment = <<>>]
    ELSE IF startsWith(trimmed, <<35>>)
         THEN IF options.preserveComments
              THEN [acc EXCEPT !.currentComment = trim(Slice(trimmed, 1, Len(trimmed)))]
              ELSE acc
    ELSE IF indexOf(trimmed, <<61>>) = -1 THEN acc
    ELSE LET equalIndex == indexOf(trimmed, <<61>>)
             key == trim(Slice(trimmed, 0, equalIndex))
             entry == EnvEntry(key, parseValue(Slice(trimmed, equalIndex + 1, Len(trimmed))),
                               orUndefined(acc.currentComment), trimEnd(originalLine))
         IN  [entries |-> Append(acc.entries, entry),
              map |-> mapSet(acc.map, key, entry),
              keys |-> keysPush(acc.keys, key),
              currentComment |-> <<>>]

RECURSIVE parseLines(_, _, _, _)
parseLines(acc, lines, i, options) ==
    IF i > Len(lines) THEN acc
    ELSE CHOOSE r \in {parseLines(next, lines, i + 1, options) :
                          next \in {parseLine(acc, lines[i], trim(lines[i]), options)}} : TRUE

parseEnv(content, options) ==
    CHOOSE r \in {[entries |-> acc.entries, map |-> acc.map, keys |-> acc.keys] :
                     acc \in {parseLines([entries |-> <<>>, map |-> <<>>, keys |-> <<>>,
                                          currentComment |-> <<>>],
                                         split(content, 10), 1, options)}} : TRUE

needsQuotes(value) ==
    \* /[\s#=\n'"]/.test(value)
    \E i \in 1..Len(value) : IsSpace(value[i]) \/ value[i] \in {35, 61, 10, 39, 34}

serializeValue(value) ==
    IF ~needsQuotes(value) THEN value
    ELSE IF \/ includes(value, <<34>>) \/ includes(value, <<92>>)
            \/ includes(value, <<10>>) \/ includes(value, <<9>>)
         THEN <<34>>
              \o (CHOOSE r \in {replace(c, <<9>>, <<92, 116>>) :
                     c \in {replace(b, <<10>>, <<92, 110>>) :
                        b \in {replace(a, <<34>>, <<92, 34>>) :
                           a \in {replace(value, <<92>>, <<92, 92>>)}}}} : TRUE)
              \o <<34>>
    ELSE <<34>> \o value \o <<34>>

serializeEntry(entry) ==
    \* the lines one entry contributes
    IF ~truthy(entry.key)
    THEN IF truthy(entry.comment) THEN << <<35, 32>> \o entry.comment >>
         ELSE IF entry.originalLine = <<>> THEN << <<>> >>
         ELSE <<>>
    ELSE (IF truthy(entry.comment) THEN << <<35, 32>> \o entry.comment >> ELSE <<>>)
         \o << entry.key \o <<61>> \o serializeValue(entry.value) >>

RECURSIVE serializeLines(_, _)
serializeLines(entries, i) ==
    IF i > Len(entries) THEN <<>>
    ELSE serializeEntry(entries[i]) \o serializeLines(entries, i + 1)

serializeEnv(entries) ==
    CHOOSE r \in {join(lines, 10) \o (IF Len(lines) > 0 THEN <<10>> ELSE <<>>) :
                     lines \in {serializeLines(entries, 1)}} : TRUE

(* The codec called on drawn inputs *)

CodecKeys == {<<65>>, <<66, 95, 49>>}   \* 'A', 'B_1'

CodecValues ==
    { <<>>,                          \* ''
      <<97>>,                        \* 'a'
      <<97, 32, 98>>,                \* 'a b'
      <<32, 97, 32>>,                \* ' a '
      <<97, 35, 98>>,                \* 'a#b'
      <<97, 61, 98>>,                \* 'a=b'
      <<105, 116, 39, 115>>,         \* "it's"
      <<34>>,                        \* '"'
      <<97, 10, 98>>,                \* 'a', newline, 'b'
      <<9>>,                         \* a tab
      <<99, 58, 92, 97>>,            \* 'c:\a'
      <<92, 34>>,                    \* backslash, '"'
      <<32, 92, 110>> }              \* ' ', backslash, 'n'

RECURSIVE SeqsUpTo(_, _)
SeqsUpTo(S, n) ==
    \* the sequences over S of length at most n
    IF n = 0 THEN {<<>>}
    ELSE LET shorter == SeqsUpTo(S, n - 1)
         IN  shorter \cup {Append(q, x) : q \in shorter, x \in S}

CodecEntries ==
    SeqsUpTo({EnvEntry(k, v, undefined, undefined) : k \in CodecKeys, v \in CodecValues},
             MaxEntries)

CodecLines ==
    { <<>>,                                  \* ''
      <<32, 32>>,                            \* two spaces
      <<35, 32, 111, 110, 101>>,             \* '# one'
      <<32, 35, 116, 119, 111, 32>>,         \* ' #two '
      <<65, 61, 49>>,                        \* 'A=1'
      <<66, 95, 49, 32, 61, 32, 34, 120, 32, 121, 34>>,   \* 'B_1 = "x y"'
      <<110, 111, 118, 97, 108, 117, 101>> } \* 'novalue'

CodecContents == {join(lines, 10) : lines \in SeqsUpTo(CodecLines, MaxLines)}

ParseOptions ==
    [preserveComments : BOOLEAN, preserveEmptyLines : BOOLEAN]

NoOptions == [preserveComments |-> FALSE, preserveEmptyLines |-> FALSE]

NoParse == [entries |-> <<>>, map |-> <<>>, keys |-> <<>>]

InitCodec ==
    /\ \E c \in Configs :
          /\ ConfigValid(c)
          /\ MASTER_KEY = c.active
          /\ PREVIOUS_MASTER_KEYS = c.previous
          /\ c.previous = <<>>
    /\ gcm = <<>>
    /\ \/ \E entries \in CodecEntries :
             io = [op |-> "entries", entries |-> entries, content |-> <<>>,
                   options |-> NoOptions, result |-> NoParse]
       \/ \E content \in CodecContents, options \in ParseOptions :
             io = [op |-> "content", entries |-> <<>>, content |-> content,
                   options |-> options, result |-> NoParse]
    /\ envVariable = <<>>
    /\ envVariableVersion = <<>>
    /\ rot = RotIdle
    /\ api = ApiIdle
    /\ start = [vars |-> <<>>, vers |-> <<>>]

CallSerializeEnv ==
    /\ io.op = "entries"
    /\ io' = [io EXCEPT !.op = "serialized", !.content = serializeEnv(io.entries)]
    /\ UNCHANGED gcm
    /\ StoreUnchanged

CallParseEnv ==
    /\ io.op \in {"serialized", "content"}
    /\ io' = [io EXCEPT !.op = IF io.op = "serialized" THEN "reparsed" ELSE "parsed",
                        !.result = parseEnv(io.content, io.options)]
    /\ UNCHANGED gcm
    /\ StoreUnchanged

NextCodec == CallSerializeEnv \/ CallParseEnv

SpecCodec == InitCodec /\ [][NextCodec]_vars

----------------------------------------------------------------------------
(* routes/environments.ts: POST /projects/:id/envs/:env/import, and the    *)
(* store under every handler that writes values and the rotation script.   *)

importEntry(acc, entry, overwrite, r) ==
    \* one pass of the loop over parsed.entries; acc holds both tables, the
    \* tag table and the values stored so far
    LET e == encryptValue(entry.value, r, r, acc.gcm)
        existing == findUnique(acc.vars, entry.key)
    IN  IF existing # 0 /\ ~overwrite
        THEN [acc EXCEPT !.gcm = e.gcm, !.results.skipped = @ + 1]
        ELSE IF existing # 0
        THEN [vars |-> update(acc.vars, existing, e.blob),
              vers |-> create(acc.vers, NewId(acc.vers), entry.key, acc.vars[existing].value),
              gcm |-> e.gcm,
              variableValues |-> acc.variableValues \cup {e.blob},
              versionValues |-> acc.versionValues \cup {acc.vars[existing].value},
              results |-> [acc.results EXCEPT !.updated = @ + 1]]
        ELSE [vars |-> create(acc.vars, NewId(acc.vars), entry.key, e.blob),
              vers |-> create(acc.vers, NewId(acc.vers), entry.key, e.blob),
              gcm |-> e.gcm,
              variableValues |-> acc.variableValues \cup {e.blob},
              versionValues |-> acc.versionValues \cup {e.blob},
              results |-> [acc.results EXCEPT !.imported = @ + 1]]

RECURSIVE importEntries(_, _, _, _, _)
importEntries(acc, entries, i, overwrite, r) ==
    IF i > Len(entries) THEN acc
    ELSE CHOOSE out \in {importEntries(a, entries, i + 1, overwrite, r) :
                            a \in {importEntry(acc, entries[i], overwrite,
                                               (r + i) % MaxRandom)}} : TRUE

NoResults == [imported |-> 0, updated |-> 0, skipped |-> 0]

importEnv(content, overwrite, r) ==
    /\ api.calls < api.limit
    /\ \E parsed \in {parseEnv(content, NoOptions)} :
          \E a \in {importEntries([vars |-> envVariable, vers |-> envVariableVersion,
                                   gcm |-> gcm, variableValues |-> {},
                                   versionValues |-> {}, results |-> NoResults],
                                  parsed.entries, 1, overwrite, r)} :
              /\ envVariable' = a.vars
              /\ envVariableVersion' = a.vers
              /\ gcm' = a.gcm
              /\ api' = Written(a.variableValues, a.versionValues)
    /\ ApiUnchanged

ImportContents ==
    { <<75, 49, 61, 110, 101, 119>>,                                \* K1=new
      <<75, 49, 61, 10, 35, 32, 99, 10, 75, 51, 61, 34, 120, 32, 121, 34>>,
                                                                    \* K1=, # c, K3="x y"
      <<75, 50, 61, 97, 10, 75, 50, 61, 98>> }                      \* K2=a, K2=b

MaxAtRestCalls == 2

InitAtRest ==
    \* the script and the API over a store of one variable and one version
    /\ \E c \in Configs :
          /\ ConfigValid(c)
          /\ c.active = HexB
          /\ MASTER_KEY = c.active
          /\ PREVIOUS_MASTER_KEYS = c.previous
          /\ InitStore(c, 1, 1, 0)
    /\ io = IoIdle
    /\ rot = [RotIdle EXCEPT !.BATCH_SIZE = MaxBatch, !.DRY_RUN = FALSE]
    /\ api = [ApiIdle EXCEPT !.limit = MaxAtRestCalls]
    /\ start = [vars |-> envVariable, vers |-> envVariableVersion]

ApiAtRest ==
    \/ \E key \in VarKeys, r \in Randoms : upsertVariable(key, r, r)
    \/ \E content \in ImportContents, overwrite \in BOOLEAN :
          importEnv(content, overwrite, api.calls)
    \/ \E key \in VarKeys : deleteVariable(key)
    \/ \E key \in VarKeys, versionId \in Ids(envVariableVersion) :
          restoreVariable(key, versionId)

NextAtRest == Rotate \/ ApiAtRest

SpecAtRest == InitAtRest /\ [][NextAtRest]_vars

----------------------------------------------------------------------------
(* Claims about the crypto functions (SpecCrypto) *)

Intact == io.changed = "none"

IsCandidate(k) ==
    \* k is the active key or one of the previous keys
    k = MASTER_KEY \/ \E i \in 1..Len(PREVIOUS_MASTER_KEYS) : PREVIOUS_MASTER_KEYS[i] = k

SameKeyMaterial(k1, k2) ==
    \* two spellings of one direct key: the same 32 bytes
    /\ isDirectKey(k1)
    /\ isDirectKey(k2)
    /\ getKeyBuffer(k1, <<>>, 0).key = getKeyBuffer(k2, <<>>, 0).key

EncryptedUnderActiveOnly ==
    \* what encryptValue returned opens with the active key, and with no
    \* configured key that is not the active key's material
    /\ decrypt(io.blob, MASTER_KEY, gcm).ok
    /\ \A i \in 1..Len(PREVIOUS_MASTER_KEYS) :
          ~SameKeyMaterial(PREVIOUS_MASTER_KEYS[i], MASTER_KEY)
              => ~decrypt(io.blob, PREVIOUS_MASTER_KEYS[i], gcm).ok

\* C1 as stated: encryptValue encrypts under the active key only, and for
\* every plaintext p and every configured key k, decryptValue(encrypt(p, k))
\* returns p.
C1_EveryPlaintext ==
    /\ (io.op = "encryptValue" /\ Intact) => EncryptedUnderActiveOnly
    /\ (io.op = "decryptValue" /\ IsCandidate(io.key))
          => (io.result.ok /\ io.result.value = io.plaintext)

\* C1 (amended): encryptValue encrypts under the active key only, and for
\* every plaintext p without an unpaired surrogate and every configured key k
\* (active or previous, of any shape), decryptValue(encrypt(p, k)) returns p;
\* for any other p it returns p with each unpaired surrogate replaced by U+FFFD.
C1_KeyRotationInvariant ==
    /\ (io.op = "encryptValue" /\ Intact) => EncryptedUnderActiveOnly
    /\ (io.op = "decryptValue" /\ IsCandidate(io.key))
          => /\ io.result.ok
             /\ io.result.value = Utf8Decode(Utf8Encode(io.plaintext))
             /\ WellFormed(io.plaintext) => io.result.value = io.plaintext

C1_Witness ==
    /\ io.op = "decryptValue"
    /\ IsCandidate(io.key)
    /\ io.key # MASTER_KEY
    /\ ~isDirectKey(io.key)
    /\ isDirectKey(MASTER_KEY)
    /\ io.tried = Len(candidateKeys)
    /\ io.result.ok
    /\ io.result.value = io.plaintext
    /\ Len(io.plaintext) > 1

FirstOpening(blob) ==
    \* the first candidate that decrypts blob, 0 when none does
    LET opens == {i \in 1..Len(candidateKeys) : decrypt(blob, candidateKeys[i], gcm).ok}
    IN  IF opens = {} THEN 0 ELSE CHOOSE i \in opens : \A j \in opens : i <= j

\* C2: decryptValue tries the active key, then the previous keys in order,
\* returns the plaintext of the first key that decrypts and tries no later
\* key; when every candidate fails it raises the last candidate's error.
C2_DecryptValueOrder ==
    io.op = "decryptValue" =>
        LET first == FirstOpening(io.blob)
            n == Len(candidateKeys)
        IN  IF first # 0
            THEN /\ io.result = decrypt(io.blob, candidateKeys[first], gcm)
                 /\ io.result.ok
                 /\ io.tried = first
            ELSE /\ io.result = decrypt(io.blob, candidateKeys[n], gcm)
                 /\ ~io.result.ok
                 /\ io.tried = n

C2_Witness ==
    /\ io.op = "decryptValue"
    /\ ~io.result.ok
    /\ io.tried = 3
    /\ io.result.message = "Invalid encrypted data: too short for passphrase mode"
    /\ decrypt(io.blob, MASTER_KEY, gcm).message
           = "Decryption failed: invalid key or corrupted data"

\* C3 as stated: for every plaintext string p and every valid master key k,
\* decrypt(encrypt(p, k), k) = p.
C3_EveryString ==
    (io.op = "decrypt" /\ Intact /\ io.key2 = io.key)
        => (io.result.ok /\ io.result.value = io.plaintext)

\* C3 (amended): for every plaintext string p without an unpaired surrogate
\* (the empty string included) and every valid master key k (64 hex
\* characters, base64 of 32 bytes, or a passphrase), decrypt(encrypt(p, k), k)
\* = p; an unpaired surrogate comes back as U+FFFD.
C3_RoundTrip ==
    (io.op = "decrypt" /\ Intact /\ io.key2 = io.key)
        => /\ io.result.ok
           /\ io.result.value = Utf8Decode(Utf8Encode(io.plaintext))
           /\ WellFormed(io.plaintext) => io.result.value = io.plaintext

C3_Witness ==
    /\ io.op = "decrypt"
    /\ Intact
    /\ io.key2 = io.key
    /\ io.key = Base64T
    /\ io.plaintext = <<55356, 57101>>
    /\ io.result.ok
    /\ io.result.value = io.plaintext

\* C4 as stated: for every plaintext and every two valid master key strings
\* k1 # k2, decrypt(encrypt(p, k1), k2) raises DecryptionError.
C4_AnyTwoStrings ==
    (io.op = "decrypt" /\ Intact /\ io.key2 # io.key)
        => (~io.result.ok /\ io.result.error = "DecryptionError")

\* C4 (amended): for every plaintext and every two valid master keys k1, k2
\* that are not spellings of the same 32 key bytes (hex in either case, or
\* base64), decrypt(encrypt(p, k1), k2) raises DecryptionError and returns no
\* plaintext; two spellings of the same bytes decrypt each other's blobs.
C4_WrongKey ==
    (io.op = "decrypt" /\ Intact /\ io.key2 # io.key)
        => IF SameKeyMaterial(io.key, io.key2)
           THEN io.result.ok
           ELSE ~io.result.ok /\ io.result.error = "DecryptionError"

C4_Witness ==
    /\ io.op = "decrypt"
    /\ Intact
    /\ io.key = HexA
    /\ io.key2 = HexB
    /\ io.plaintext = <<97>>
    /\ ~io.result.ok
    /\ io.result.error = "DecryptionError"

\* C5: after a byte of the ciphertext portion of b = encrypt(p, k) is
\* changed, or b is cut to any shorter length, decrypt(b', k) raises
\* DecryptionError.
C5_TamperOrTruncate ==
    (io.op = "decrypt" /\ ~Intact /\ io.key2 = io.key)
        => (~io.result.ok /\ io.result.error = "DecryptionError")

----------------------------------------------------------------------------
(* Claims about the rotation script (SpecRotate, FairSpecRotate) *)

PlainAtStart(table, id) == decryptValue(table[id].value, gcm)

OpensWithActiveKey(value) == decrypt(value, MASTER_KEY, gcm).ok

Rotated(table, before) ==
    \* every row of the table opens with the active key alone and holds the
    \* plaintext it held before the run
    /\ Ids(table) = Ids(before)
    /\ \A id \in Ids(table) :
          /\ table[id].key = before[id].key
          /\ decrypt(table[id].value, MASTER_KEY, gcm).ok
          /\ decrypt(table[id].value, MASTER_KEY, gcm).value
                 = PlainAtStart(before, id).value

Unreadable(table) == {id \in Ids(table) : ~PlainAtStart(table, id).ok}

UntouchedFrom(table, before, id) ==
    \* the row id and every row after it are as they were before the run
    \A x \in Ids(before) : x >= id => (x \in Ids(table) /\ table[x] = before[x])

\* C7: when decryptValue fails for a record, the script stops there: the
\* error surfaces and the exit code is 1, the failing record and every
\* record after it (in its table and in the table not yet reached) are left
\* as they were, and the script never reports completion; a store holding
\* an unreadable record never ends in a completed run.
C7_AbortsOnFirstFailure ==
    /\ rot.pc = "failed"
          => /\ rot.exitCode = 1
             /\ ~rot.completed
             /\ rot.versionCount = -1
             /\ rot.error.error = "DecryptionError"
             /\ LET failing == rot.batch[rot.idx].id
                IN  IF rot.envVarCount = -1
                    THEN /\ failing \in Unreadable(start.vars)
                         /\ \A x \in Unreadable(start.vars) : failing <= x
                         /\ UntouchedFrom(envVariable, start.vars, failing)
                         /\ envVariableVersion = start.vers
                    ELSE /\ failing \in Unreadable(start.vers)
                         /\ \A x \in Unreadable(start.vers) : failing <= x
                         /\ UntouchedFrom(envVariableVersion, start.vers, failing)
    /\ rot.completed => (rot.pc = "done" /\ rot.exitCode = 0)
    /\ (Unreadable(start.vars) # {} \/ Unreadable(start.vers) # {})
          => (rot.pc # "done" /\ ~rot.completed)

C7_Witness ==
    /\ rot.pc = "failed"
    /\ ~rot.DRY_RUN
    /\ rot.exitCode = 1
    /\ rot.batch[rot.idx].id = 4
    /\ rot.envVarCount = -1
    /\ Cardinality(Ids(start.vars)) = 3
    /\ Cardinality(Ids(start.vers)) = 2
    /\ envVariable[2] # start.vars[2]
    /\ envVariable[4] = start.vars[4]
    /\ envVariable[6] = start.vars[6]

\* C8: in dry-run mode the stored data is the same before, during and after
\* the run, and a completed run reports the counts an execute-mode run
\* reports over the same data: the number of rows of each table.
C8_DryRunWritesNothing ==
    /\ rot.DRY_RUN => (envVariable = start.vars /\ envVariableVersion = start.vers)
    /\ rot.pc = "done"
          => /\ rot.envVarCount = Cardinality(Ids(start.vars))
             /\ rot.versionCount = Cardinality(Ids(start.vers))

C8_Witness ==
    /\ rot.DRY_RUN
    /\ rot.pc = "done"
    /\ rot.envVarCount = 3
    /\ rot.versionCount = 2
    /\ rot.BATCH_SIZE = 2
    /\ \E id \in Ids(start.vars) : ~OpensWithActiveKey(envVariable[id].value)
    /\ envVariable = start.vars
    /\ envVariableVersion = start.vers

IsPrefix(s, t) == Len(s) <= Len(t) /\ \A i \in 1..Len(s) : s[i] = t[i]

ExactlyOnce ==
    \* the rows are visited in ascending id order, none twice, and a loop
    \* that has returned has visited and counted every row of its table
    /\ IsPrefix(rot.visitedVars, SortedIds(Ids(start.vars)))
    /\ IsPrefix(rot.visitedVers, SortedIds(Ids(start.vers)))
    /\ rot.pc \in {"versFind", "versItem", "done"}
          => /\ rot.visitedVars = SortedIds(Ids(start.vars))
             /\ rot.envVarCount = Cardinality(Ids(start.vars))
    /\ rot.pc = "done"
          => /\ rot.visitedVers = SortedIds(Ids(start.vers))
             /\ rot.versionCount = Cardinality(Ids(start.vers))

\* C10: for every batch size B >= 1 and every N >= 0 rows in a table that no
\* one else writes to, the rotation loops terminate, visit every row exactly
\* once in ascending id order, and return N (unless a row fails to decrypt,
\* which ends the run).
C10_PaginationCoverage ==
    /\ []ExactlyOnce
    /\ <>(rot.pc \in {"done", "failed"})

C10_Witness ==
    /\ rot.pc = "done"
    /\ rot.BATCH_SIZE = 2
    /\ rot.envVarCount = 3
    /\ rot.versionCount = 2
    /\ rot.visitedVars = <<2, 4, 6>>
    /\ rot.visitedVers = <<2, 4>>

----------------------------------------------------------------------------
(* Claims about the script running beside the API (SpecOnline) *)

Readable(table) == \A id \in Ids(table) : decryptValue(table[id].value, gcm).ok

DuringRun(pc) == pc \in {"varsFind", "varsItem", "versFind", "versItem"}

\* C9: with the old key in PREVIOUS_MASTER_KEYS and the API serving while
\* the script runs, every stored ciphertext is decryptable by decryptValue
\* in every intermediate state, and every variable value the API stores
\* during the run is encrypted under the active key only.
C9_OnlineRotation ==
    /\ Readable(envVariable)
    /\ Readable(envVariableVersion)
    /\ \A w \in api.writes :
          (w.table = "EnvVariable" /\ DuringRun(w.pc)) => OpensWithActiveKey(w.value)

----------------------------------------------------------------------------
(* Claims about the script started again (SpecRerun) *)

OpensWithConfiguredKey(value) ==
    \/ decrypt(value, MASTER_KEY, gcm).ok
    \/ \E i \in 1..Len(PREVIOUS_MASTER_KEYS) :
          decrypt(value, PREVIOUS_MASTER_KEYS[i], gcm).ok

Undecryptable(before) == {id \in Ids(before) : ~OpensWithConfiguredKey(before[id].value)}

Seen(visited) == {visited[i] : i \in 1..Len(visited)}

UntouchedOrRekeyed(table, before) ==
    \* every row is as it was before the first run, or opens with the active
    \* key on the plaintext it held then
    /\ Ids(table) = Ids(before)
    /\ \A id \in Ids(table) :
          \/ table[id] = before[id]
          \/ /\ table[id].key = before[id].key
             /\ decrypt(table[id].value, MASTER_KEY, gcm).ok
             /\ decrypt(table[id].value, MASTER_KEY, gcm).value
                    = PlainAtStart(before, id).value

RerunSafe ==
    /\ UntouchedOrRekeyed(envVariable, start.vars)
    /\ UntouchedOrRekeyed(envVariableVersion, start.vers)
    /\ Len(rot.prior) = 0
          => /\ \A id \in Ids(start.vars) \ Seen(rot.visitedVars) :
                   envVariable[id] = start.vars[id]
             /\ \A id \in Ids(start.vers) \ Seen(rot.visitedVers) :
                   envVariableVersion[id] = start.vers[id]
    /\ (rot.pc = "done" /\ Len(rot.prior) > 0)
          => /\ rot.exitCode = 0
             /\ rot.envVarCount = Cardinality(Ids(start.vars))
             /\ rot.versionCount = Cardinality(Ids(start.vers))
             /\ ~rot.DRY_RUN => /\ Rotated(envVariable, start.vars)
                                /\ Rotated(envVariableVersion, start.vers)

----------------------------------------------------------------------------
(* Claims about the blob layout (SpecCrypto) *)

BlobLayout(combined, direct) ==
    \* combined is [salt +] nonce + tag + ciphertext of one encryption made
    \* with a key of the class direct says
    \E n \in 1..Len(gcm) :
        /\ gcm[n].key.derived = ~direct
        /\ Len(gcm[n].key.salt) = (IF direct THEN 0 ELSE SALT_LENGTH)
        /\ Len(gcm[n].nonce) = NONCE_LENGTH
        /\ Len(TagBytes(n)) = TAG_LENGTH
        /\ Len(gcm[n].ct) = Len(Utf8Encode(io.plaintext))
        /\ combined = gcm[n].key.salt \o gcm[n].nonce \o TagBytes(n) \o gcm[n].ct

----------------------------------------------------------------------------
(* Claims about the .env codec (SpecCodec) *)

LastValue(entries, key) ==
    \* the value of the last entry of the list with this key
    entries[Max({i \in 1..Len(entries) : entries[i].key = key})].value

\* C14: for every list of entries with non-empty keys and arbitrary string
\* values (backslashes, quotes, spaces, '#', '=', newlines and tabs
\* included), parseEnv(serializeEnv(entries)).map holds exactly the
\* key-to-value pairs of the list, the last occurrence of a key winning.
C14_CodecRoundTrip ==
    io.op = "reparsed"
        => /\ DOMAIN io.result.map = {io.entries[i].key : i \in 1..Len(io.entries)}
           /\ \A k \in DOMAIN io.result.map :
                 io.result.map[k].value = LastValue(io.entries, k)

LineKind(line) ==
    LET trimmed == trim(line)
    IN  IF trimmed = <<>> THEN "blank"
        ELSE IF trimmed[1] = 35 THEN "comment"
        ELSE IF \E i \in 1..Len(trimmed) : trimmed[i] = 61 THEN "entry"
        ELSE "other"

CommentText(line) == LET trimmed == trim(line) IN trim(Slice(trimmed, 1, Len(trimmed)))

PendingComment(lines, i) ==
    \* the text of the last comment line before line i with neither a blank
    \* line nor a key=value line between them
    LET cs == {c \in 1..(i - 1) :
                  /\ LineKind(lines[c]) = "comment"
                  /\ \A m \in (c + 1)..(i - 1) : LineKind(lines[m]) \notin {"blank", "entry"}}
    IN  IF cs = {} THEN undefined ELSE orUndefined(CommentText(lines[Max(cs)]))

Producing(lines, options) ==
    \* the lines parseEnv makes an entry of
    {i \in 1..Len(lines) :
        \/ LineKind(lines[i]) = "entry"
        \/ (LineKind(lines[i]) = "blank" /\ options.preserveEmptyLines)}

LineOf(lines, options, j) ==
    CHOOSE i \in Producing(lines, options) :
        Cardinality({m \in Producing(lines, options) : m < i}) = j - 1

CommentsOfEntries ==
    \* every key=value entry carries the comment pending at its line when
    \* preserveComments is set, and none otherwise
    LET lines == split(io.content, 10)
    IN  /\ Len(io.result.entries) = Cardinality(Producing(lines, io.options))
        /\ \A j \in 1..Len(io.result.entries) :
              LET i == LineOf(lines, io.options, j)
              IN  LineKind(lines[i]) = "entry"
                     => io.result.entries[j].comment
                            = (IF io.options.preserveComments
                               THEN PendingComment(lines, i) ELSE undefined)

\* C15: with preserveComments a comment's text is attached only to the next
\* key=value entry that follows it with no blank line in between; the
\* pending comment is cleared after each entry and each blank line, so no
\* blank-line entry and no entry after a blank line carries it; without
\* preserveComments no entry has a comment.
C15_CommentAssociation ==
    io.op = "parsed"
        => /\ CommentsOfEntries
           /\ \A j \in 1..Len(io.result.entries) :
                 /\ io.result.entries[j].key = <<>> /\ io.result.entries[j].originalLine = <<>>
                       => io.result.entries[j].comment = undefined
                 /\ ~io.options.preserveComments
                       => io.result.entries[j].comment = undefined

----------------------------------------------------------------------------
(* Claims about the values at rest (SpecAtRest) *)

Rows == {envVariable[id].value : id \in Ids(envVariable)}
            \cup {envVariableVersion[id].value : id \in Ids(envVariableVersion)}

ProducedByEncrypt(value) ==
    \* value is the base64 of [salt +] nonce + tag + ciphertext of one
    \* encryption made under a configured key
    \E combined \in {Base64Decode(value)} :
        \E n \in 1..Len(gcm) :
            /\ combined = gcm[n].key.salt \o gcm[n].nonce \o TagBytes(n) \o gcm[n].ct
            /\ value = Base64Encode(combined)
            /\ \E i \in 1..Len(candidateKeys) :
                  \E salt \in {gcm[n].key.salt} :
                     getKeyBuffer(candidateKeys[i], salt, 0).key = gcm[n].key

\* C13: after any sequence of upsert, import, delete, restore and rotation,
\* every value held in EnvVariable and in EnvVariableVersion is a ciphertext
\* produced by encryptValue, which decryptValue opens, and never the
\* plaintext itself.
C13_EncryptedAtRest ==
    \A value \in Rows :
        /\ ProducedByEncrypt(value)
        /\ \E r \in {decryptValue(value, gcm)} : r.ok /\ r.value # value

C13_Witness ==
    /\ rot.pc = "done"
    /\ api.calls = MaxAtRestCalls
    /\ \E w \in api.writes : w.table = "EnvVariable" /\ w.value \in Rows
    /\ \E id \in Ids(envVariable) :
          /\ envVariable[id].key = VarKey(3)
          /\ \E r \in {decryptValue(envVariable[id].value, gcm)} :
                r.ok /\ r.value = <<120, 32, 121>>

----------------------------------------------------------------------------
(* The diff engine: diffEnvs, isSecretKeyByName and mask, and the          *)
(* canonical classifier isSecretKey of the parser module.  A map is the    *)
(* sequence of its own [key, value] properties in Object.keys order.       *)

Canonicalize(s) ==
    \* the case folding of a /i pattern on ASCII letters
    [i \in 1..Len(s) |-> IF s[i] >= 65 /\ s[i] <= 90 THEN s[i] + 32 ELSE s[i]]

test(pattern, key) == includes(Canonicalize(key), pattern)

testApiKey(key) ==
    \* /api[_-]?key/i
    \E sep \in {<<>>, <<95>>, <<45>>} : test(<<97, 112, 105>> \o sep \o <<107, 101, 121>>, key)

DiffPatterns ==
    { <<115, 101, 99, 114, 101, 116>>,                        \* secret
      <<112, 97, 115, 115, 119, 111, 114, 100>>,              \* password
      <<116, 111, 107, 101, 110>>,                            \* token
      <<107, 101, 121>>,                                      \* key
      <<97, 117, 116, 104>>,                                  \* auth
      <<99, 114, 101, 100, 101, 110, 116, 105, 97, 108>>,     \* credential
      <<112, 114, 105, 118, 97, 116, 101>>,                   \* private
      <<112, 97, 115, 115, 112, 104, 114, 97, 115, 101>> }    \* passphrase

isSecretKeyByName(key) ==
    (\E p \in DiffPatterns : test(p, key)) \/ testApiKey(key)

isSecretKey(key) ==
    \/ \E p \in DiffPatterns : test(p, key)
    \/ testApiKey(key)
    \/ test(<<115, 101, 101, 100>>, key)                      \* seed
    \/ test(<<109, 110, 101, 109, 111, 110, 105, 99>>, key)   \* mnemonic

ObjectPrototype ==
    \* names every object literal inherits, with the length of the function
    { [name |-> <<99, 111, 110, 115, 116, 114, 117, 99, 116, 111, 114>>, length |-> 1,
       fname |-> <<79, 98, 106, 101, 99, 116>>],              \* constructor: Object
      [name |-> <<116, 111, 83, 116, 114, 105, 110, 103>>, length |-> 0,
       fname |-> <<116, 111, 83, 116, 114, 105, 110, 103>>] } \* toString

inherited(key) == <<-2>> \o key   \* the function Object.prototype[key]

isFunction(value) == Len(value) > 0 /\ value[1] = -2

hasOwn(obj, key) == \E i \in 1..Len(obj) : obj[i].key = key

get(obj, key) ==
    \* obj[key]: the own property, else the inherited one, else undefined
    IF hasOwn(obj, key) THEN obj[CHOOSE i \in 1..Len(obj) : obj[i].key = key].value
    ELSE IF \E f \in ObjectPrototype : f.name = key THEN inherited(key)
    ELSE undefined

length(value) ==
    IF isFunction(value)
    THEN (CHOOSE f \in ObjectPrototype : inherited(f.name) = value).length
    ELSE Len(value)

maskNothing(value, visible) == value

mask(value, visible) ==
    IF length(value) <= visible * 2
    THEN Rep(8226, length(value))
    ELSE Slice(value, 0, visible) \o Rep(8226, Len(value) - visible * 2)
             \o Slice(value, Len(value) - visible, Len(value))

Default(option, default) == IF option = <<>> THEN default ELSE option[1]

RECURSIVE keysUnion(_, _)
keysUnion(keys, seen) ==
    \* new Set([...sourceKeys, ...targetKeys]) in insertion order
    IF keys = <<>> THEN <<>>
    ELSE IF Head(keys) \in seen THEN keysUnion(Tail(keys), seen)
    ELSE <<Head(keys)>> \o keysUnion(Tail(keys), seen \cup {Head(keys)})

diffEntry(source, target, key, maskSecrets, secretKeys) ==
    \* the entry the loop body builds; an absent field is undefined
    LET sourceValue == get(source, key)
        targetValue == get(target, key)
        isSecret == (\E i \in 1..Len(secretKeys) : secretKeys[i] = key)
                        \/ isSecretKeyByName(key)
        shown(value) == IF maskSecrets /\ isSecret THEN mask(value, 3) ELSE value
    IN  IF sourceValue = undefined
        THEN [key |-> key, type |-> "added", sourceValue |-> undefined,
              targetValue |-> shown(targetValue), isSecret |-> isSecret]
        ELSE IF targetValue = undefined
        THEN [key |-> key, type |-> "removed", sourceValue |-> shown(sourceValue),
              targetValue |-> undefined, isSecret |-> isSecret]
        ELSE IF sourceValue # targetValue
        THEN [key |-> key, type |-> "changed", sourceValue |-> shown(sourceValue),
              targetValue |-> shown(targetValue), isSecret |-> isSecret]
        ELSE [key |-> key, type |-> "unchanged", sourceValue |-> shown(sourceValue),
              targetValue |-> shown(targetValue), isSecret |-> isSecret]

push(list, entry, cond) == IF cond THEN Append(list, entry) ELSE list

inEntriesAlways(entry, includeUnchanged) == TRUE

inEntries(entry, includeUnchanged) == includeUnchanged \/ entry.type # "unchanged"

RECURSIVE diffLoop(_, _, _, _, _, _, _)
diffLoop(acc, allKeys, source, target, maskSecrets, secretKeys, includeUnchanged) ==
    \* for (const key of allKeys)
    IF allKeys = <<>> THEN acc
    ELSE CHOOSE out \in
           {diffLoop([entries |-> push(acc.entries, entry,
                                       inEntries(entry, includeUnchanged)),
                      added |-> push(acc.added, entry, entry.type = "added"),
                      removed |-> push(acc.removed, entry, entry.type = "removed"),
                      changed |-> push(acc.changed, entry, entry.type = "changed"),
                      unchanged |-> push(acc.unchanged, entry, entry.type = "unchanged")],
                     Tail(allKeys), source, target, maskSecrets, secretKeys,
                     includeUnchanged) :
               entry \in {diffEntry(source, target, Head(allKeys), maskSecrets,
                                    secretKeys)}} : TRUE

diffEnvs(source, target, options) ==
    LET lists == diffLoop([entries |-> <<>>, added |-> <<>>, removed |-> <<>>,
                           changed |-> <<>>, unchanged |-> <<>>],
                          keysUnion([i \in 1..Len(source) |-> source[i].key]
                                        \o [i \in 1..Len(target) |-> target[i].key], {}),
                          source, target,
                          Default(options.maskSecrets, TRUE),
                          Default(options.secretKeys, <<>>),
                          Default(options.includeUnchanged, FALSE))
    IN  [entries |-> lists.entries, added |-> lists.added, removed |-> lists.removed,
         changed |-> lists.changed, unchanged |-> lists.unchanged,
         hasChanges |-> Len(lists.added) > 0 \/ Len(lists.removed) > 0
                            \/ Len(lists.changed) > 0]

----------------------------------------------------------------------------
(* diffEnvs called on drawn maps and options *)

DiffKeys ==
    << <<65>>,                                                      \* A
       <<65, 80, 73, 95, 75, 69, 89>>,                              \* API_KEY
       <<68, 66, 95, 83, 69, 69, 68>>,                              \* DB_SEED
       <<99, 111, 110, 115, 116, 114, 117, 99, 116, 111, 114>> >>   \* constructor

DiffValues ==
    { <<>>, <<97, 98, 99, 100, 101, 102>>,                          \* '', abcdef
      <<115, 101, 99, 114, 101, 116, 49, 50, 51>>,                  \* secret123
      <<8226, 8226>> }                                              \* two glyphs

MaxDiffKeys == 2

DiffMaps ==
    \* maps of up to MaxDiffKeys properties, keys in the order of DiffKeys
    UNION {{[j \in 1..Cardinality(K) |->
                [key |-> DiffKeys[CHOOSE k \in K : Cardinality({m \in K : m < k}) = j - 1],
                 value |-> f[CHOOSE k \in K : Cardinality({m \in K : m < k}) = j - 1]]] :
              f \in [K -> DiffValues]} :
           K \in {S \in SUBSET (1..Len(DiffKeys)) : Cardinality(S) <= MaxDiffKeys}}

DiffOptionsGiven ==
    { [maskSecrets |-> <<>>, secretKeys |-> <<>>, includeUnchanged |-> <<>>],
      [maskSecrets |-> <<FALSE>>, secretKeys |-> <<>>, includeUnchanged |-> <<>>],
      [maskSecrets |-> <<TRUE>>, secretKeys |-> << <<DiffKeys[1]>> >>,
       includeUnchanged |-> <<TRUE>>],
      [maskSecrets |-> <<>>, secretKeys |-> << <<DiffKeys[1]>> >>,
       includeUnchanged |-> <<FALSE>>] }

NoDiff ==
    [entries |-> <<>>, added |-> <<>>, removed |-> <<>>, changed |-> <<>>,
     unchanged |-> <<>>, hasChanges |-> FALSE]

InitDiff ==
    /\ \E c \in Configs :
          /\ ConfigValid(c)
          /\ MASTER_KEY = c.active
          /\ PREVIOUS_MASTER_KEYS = c.previous
          /\ c.previous = <<>>
    /\ gcm = <<>>
    /\ \E source \in DiffMaps, target \in DiffMaps, options \in DiffOptionsGiven :
          io = [op |-> "maps", source |-> source, target |-> target,
                options |-> options, result |-> NoDiff]
    /\ envVariable = <<>>
    /\ envVariableVersion = <<>>
    /\ rot = RotIdle
    /\ api = ApiIdle
    /\ start = [vars |-> <<>>, vers |-> <<>>]

CallDiffEnvs ==
    /\ io.op = "maps"
    /\ io' = [io EXCEPT !.op = "diffEnvs",
                        !.result = diffEnvs(io.source, io.target, io.options)]
    /\ UNCHANGED gcm
    /\ StoreUnchanged

NextDiff == CallDiffEnvs

SpecDiff == InitDiff /\ [][NextDiff]_vars

----------------------------------------------------------------------------
(* Claims about the diff engine (SpecDiff) *)

Own(obj) == {obj[i].key : i \in 1..Len(obj)}

ValueOf(obj, key) == obj[CHOOSE i \in 1..Len(obj) : obj[i].key = key].value

Lists == {"added", "removed", "changed", "unchanged"}

Count(list, key) == Cardinality({i \in 1..Len(list) : list[i].key = key})

Class(key) ==
    \* the class the key has by the two maps
    IF key \notin Own(io.source) THEN "added"
    ELSE IF key \notin Own(io.target) THEN "removed"
    ELSE IF ValueOf(io.source, key) # ValueOf(io.target, key) THEN "changed"
    ELSE "unchanged"

Classified(keys) ==
    /\ \A key \in keys :
          \A l \in Lists : Count(io.result[l], key) = (IF l = Class(key) THEN 1 ELSE 0)
    /\ \A l \in Lists :
          \A i \in 1..Len(io.result[l]) :
             /\ io.result[l][i].type = l
             /\ io.result[l][i].key \in Own(io.source) \cup Own(io.target)

\* C16: diffEnvs puts every key of the union of the source and target keys
\* into exactly one of added (absent in source), removed (absent in target),
\* changed (in both, different values) and unchanged (in both, identical);
\* the four lists are pairwise disjoint and cover the union exactly once.
C16_Classification ==
    io.op = "diffEnvs" => Classified(Own(io.source) \cup Own(io.target))

AllEntries ==
    UNION {{io.result[l][i] : i \in 1..Len(io.result[l])} : l \in Lists \cup {"entries"}}

\* C17: diffEnvs marks an entry isSecret exactly when its key is in the
\* secretKeys list or isSecretKey(key) is true: the diff engine's matcher
\* and isSecretKey agree on every name.
C17_SecretRuleEquivalence ==
    io.op = "diffEnvs"
        => \A e \in AllEntries :
              e.isSecret = (\/ \E i \in 1..Len(Default(io.options.secretKeys, <<>>)) :
                                  Default(io.options.secretKeys, <<>>)[i] = e.key
                            \/ isSecretKey(e.key))

Replaced(p) ==
    \* the positions of p the mask does not keep
    {i \in 1..Len(p) : ~(Len(p) > 6 /\ (i <= 3 \/ i > Len(p) - 3))}

MaskOf(p) == [i \in 1..Len(p) |-> IF i \in Replaced(p) THEN 8226 ELSE p[i]]

Sides(e) ==
    \* the values reported with e for keys the maps have, with their plaintext
    (IF e.key \in Own(io.source)
     THEN {[reported |-> e.sourceValue, plaintext |-> ValueOf(io.source, e.key)]}
     ELSE {})
      \cup
    (IF e.key \in Own(io.target)
     THEN {[reported |-> e.targetValue, plaintext |-> ValueOf(io.target, e.key)]}
     ELSE {})

Masked(e) == Default(io.options.maskSecrets, TRUE) /\ e.isSecret

MaskedOrUnmodified ==
    \A e \in AllEntries :
        \A v \in Sides(e) :
            v.reported = (IF Masked(e) THEN MaskOf(v.plaintext) ELSE v.plaintext)

CountEntry(list, e) == Cardinality({i \in 1..Len(list) : list[i] = e})

\* C19: entries holds exactly the added, removed and changed entries, plus
\* the unchanged ones only when includeUnchanged is true; hasChanges is true
\* if and only if an added, removed or changed entry exists, so identical
\* maps give hasChanges false and, by default, an empty entries list.
C19_ResultConsistency ==
    io.op = "diffEnvs"
        => LET r == io.result
               includeUnchanged == Default(io.options.includeUnchanged, FALSE)
           IN  /\ \A l \in Lists :
                     \A i \in 1..Len(r[l]) :
                        CountEntry(r.entries, r[l][i])
                            = (IF l = "unchanged" /\ ~includeUnchanged THEN 0 ELSE 1)
               /\ \A i \in 1..Len(r.entries) :
                     \E l \in Lists : CountEntry(r[l], r.entries[i]) = 1
               /\ r.hasChanges = (\E l \in Lists \ {"unchanged"} : Len(r[l]) > 0)
               /\ io.source = io.target
                     => /\ ~r.hasChanges
                        /\ ~includeUnchanged => r.entries = <<>>

C19_Witness ==
    /\ io.op = "diffEnvs"
    /\ ~Default(io.options.includeUnchanged, FALSE)
    /\ Len(io.result.unchanged) = 1
    /\ Len(io.result.changed) = 1
    /\ io.result.entries = io.result.changed
    /\ io.result.hasChanges

----------------------------------------------------------------------------
(* The schema validator: validateEnv, validateValue and validateType.  A   *)
(* schema's fields and the variables are maps as above; an optional field  *)
(* of a SchemaField is <<>> when absent and <<v>> when given.  The message *)
(* of an error is left out.                                                *)

String(value) ==
    \* the string a value converts to
    IF isFunction(value)
    THEN <<102, 117, 110, 99, 116, 105, 111, 110, 32>>
             \o (CHOOSE f \in ObjectPrototype : inherited(f.name) = value).fname
             \o <<40, 41, 32, 123, 32, 91, 110, 97, 116, 105, 118, 101, 32, 99, 111,
                  100, 101, 93, 32, 125>>
    ELSE value

IsDigits(s, lo, hi) == s # <<>> /\ \A i \in 1..Len(s) : s[i] >= lo /\ s[i] <= hi

IsExponent(s) ==
    \/ s = <<>>
    \/ /\ s[1] \in {69, 101}
       /\ IsDigits(IF Len(s) > 1 /\ s[2] \in {43, 45} THEN Slice(s, 2, Len(s))
                   ELSE Slice(s, 1, Len(s)), 48, 57)

IsMantissa(s) ==
    \* digits, digits '.', digits '.' digits, '.' digits
    /\ \E i \in 1..Len(s) : s[i] # 46
    /\ Cardinality({i \in 1..Len(s) : s[i] = 46}) <= 1
    /\ \A i \in 1..Len(s) : s[i] = 46 \/ (s[i] >= 48 /\ s[i] <= 57)

IsStrNumericLiteral(s) ==
    LET unsigned == IF s # <<>> /\ s[1] \in {43, 45} THEN Tail(s) ELSE s
    IN  \/ unsigned = <<73, 110, 102, 105, 110, 105, 116, 121>>    \* Infinity
        \/ \E i \in 1..Len(unsigned) :
              IsMantissa(Slice(unsigned, 0, i)) /\ IsExponent(Slice(unsigned, i, Len(unsigned)))
        \/ /\ Len(s) > 2
           /\ s[1] = 48
           /\ \/ s[2] \in {88, 120} /\ \A i \in 3..Len(s) : IsHexDigit(s[i])
              \/ s[2] \in {79, 111} /\ IsDigits(Slice(s, 2, Len(s)), 48, 55)
              \/ s[2] \in {66, 98} /\ IsDigits(Slice(s, 2, Len(s)), 48, 49)

NumberIsNaN(value) ==
    \* isNaN(Number(value)): white space is trimmed and '' converts to 0
    \E t \in {trim(String(value))} : t # <<>> /\ ~IsStrNumericLiteral(t)

IsBooleanWord(value) ==
    \* /^(true|false|1|0|yes|no)$/i
    Canonicalize(String(value)) \in
        { <<116, 114, 117, 101>>, <<102, 97, 108, 115, 101>>, <<49>>, <<48>>,
          <<121, 101, 115>>, <<110, 111>> }

SpecialSchemes ==
    { <<104, 116, 116, 112>>, <<104, 116, 116, 112, 115>>, <<119, 115>>,
      <<119, 115, 115>>, <<102, 116, 112>> }                   \* http https ws wss ftp

URLParses(value) ==
    \* new URL(value) without a base: a scheme is required and, for the
    \* special schemes, a host after the slashes; the validity of the host's
    \* characters is not modelled
    \E t \in {trim(String(value))} :
        \E colon \in {indexOf(t, <<58>>)} :
            /\ colon > 0
            /\ (t[1] >= 65 /\ t[1] <= 90) \/ (t[1] >= 97 /\ t[1] <= 122)
            /\ \A i \in 2..colon :
                  \/ (t[i] >= 65 /\ t[i] <= 90) \/ (t[i] >= 97 /\ t[i] <= 122)
                  \/ (t[i] >= 48 /\ t[i] <= 57) \/ t[i] \in {43, 45, 46}
            /\ Canonicalize(Slice(t, 0, colon)) \in SpecialSchemes
                  => \E i \in (colon + 2)..Len(t) :
                        /\ t[i] \notin {47, 92, 63, 35}
                        /\ \A j \in (colon + 2)..(i - 1) : t[j] \in {47, 92}

IsEmail(value) ==
    \* /^[^\s@]+@[^\s@]+\.[^\s@]+$/
    \E s \in {String(value)} :
        /\ \A i \in 1..Len(s) : ~IsSpace(s[i])
        /\ Cardinality({i \in 1..Len(s) : s[i] = 64}) = 1
        /\ \E at \in 2..Len(s) :
              /\ s[at] = 64
              /\ \E dot \in (at + 2)..(Len(s) - 1) : s[dot] = 46

typeFails(value, type) ==
    \* TRUE when validateType returns an error
    IF type = "number" THEN NumberIsNaN(value) \/ trim(String(value)) = <<>>
    ELSE IF type = "boolean" THEN ~IsBooleanWord(value)
    ELSE IF type = "url" THEN ~URLParses(value)
    ELSE IF type = "email" THEN ~IsEmail(value)
    ELSE FALSE

RegExpTest(pattern, value) ==
    \* new RegExp(pattern).test(value) for the patterns drawn
    IF pattern = <<94, 91, 97, 45, 122, 93, 43, 36>>             \* ^[a-z]+$
    THEN IF IsDigits(String(value), 97, 122) THEN "match" ELSE "nomatch"
    ELSE "throws"                                                \* (

ValidationError(key, type, value) == [key |-> key, type |-> type, value |-> value]

validateValue(key, value, field, errors) ==
    IF field.type # <<>> /\ typeFails(value, field.type[1])
    THEN Append(errors, ValidationError(key, "invalid_type", value))
    ELSE push(push(push(errors,
                        ValidationError(key, "invalid_format", value),
                        field.regex # <<>> /\ field.regex[1] # <<>>
                            /\ RegExpTest(field.regex[1], value) = "nomatch"),
                   ValidationError(key, "too_short", value),
                   field.minLength # <<>> /\ length(value) < field.minLength[1]),
              ValidationError(key, "too_long", value),
              field.maxLength # <<>> /\ length(value) > field.maxLength[1])

RECURSIVE validateFields(_, _, _, _)
validateFields(errors, envVars, fields, i) ==
    \* for (const key of schemaKeys)
    IF i > Len(fields) THEN errors
    ELSE LET key == fields[i].key
             field == fields[i].value
             value == get(envVars, key)
         IN  IF Default(field.required, FALSE) /\ (value = undefined \/ value = <<>>)
             THEN validateFields(Append(errors, ValidationError(key, "missing", undefined)),
                                 envVars, fields, i + 1)
             ELSE IF value # undefined /\ value # <<>>
             THEN validateFields(validateValue(key, value, field, errors),
                                 envVars, fields, i + 1)
             ELSE validateFields(errors, envVars, fields, i + 1)

RECURSIVE extraKeys(_, _, _, _)
extraKeys(errors, envVars, fields, i) ==
    \* for (const key of envKeys) if (!schema.fields[key])
    IF i > Len(envVars) THEN errors
    ELSE extraKeys(push(errors, ValidationError(envVars[i].key, "extra", undefined),
                        ~hasOwn(fields, envVars[i].key)
                            /\ \A f \in ObjectPrototype : f.name # envVars[i].key),
                   envVars, fields, i + 1)

validateEnv(envVars, schema, options) ==
    LET checked == validateFields(<<>>, envVars, schema.fields, 1)
        errors == IF Default(options.allowExtra, FALSE) THEN checked
                  ELSE extraKeys(checked, envVars, schema.fields, 1)
    IN  [valid |-> errors = <<>>, errors |-> errors, warnings |-> <<>>]

----------------------------------------------------------------------------
(* validateEnv called on drawn variables and one-field schemas *)

SchemaKeys ==
    { <<65>>, <<99, 111, 110, 115, 116, 114, 117, 99, 116, 111, 114>> }   \* A, constructor

SchemaFields ==
    [type : {<<>>, <<"string">>, <<"number">>, <<"boolean">>, <<"url">>, <<"email">>},
     required : {<<>>, <<TRUE>>},
     regex : {<<>>, << <<94, 91, 97, 45, 122, 93, 43, 36>> >>, << <<40>> >>},
     minLength : {<<>>, <<2>>},
     maxLength : {<<>>, <<4>>}]

EnvValues ==
    { <<>>, <<32>>, <<51, 48, 48, 48>>, <<97, 98, 99>>, <<116, 114, 117, 101>>,
      <<97, 64, 98, 46, 99>>, <<120, 58, 121>>, <<104, 116, 116, 112, 58, 47, 47, 104>>,
      <<49, 101, 51>>, <<49, 50, 112, 120>>, <<104, 116, 116, 112, 58, 47, 47>> }
    \* '', ' ', 3000, abc, true, a@b.c, x:y, http://h, 1e3, 12px, http://

EnvVars ==
    \* A given or not, with or without the variable X the schemas do not have
    {<<>>, <<[key |-> <<88>>, value |-> <<49>>]>>}
        \cup {<<[key |-> <<65>>, value |-> v]>> : v \in EnvValues}
        \cup {<<[key |-> <<65>>, value |-> v], [key |-> <<88>>, value |-> <<49>>]>> :
                 v \in {<<>>, <<97, 98, 99>>}}
        \cup {<<[key |-> <<99, 111, 110, 115, 116, 114, 117, 99, 116, 111, 114>>,
                 value |-> <<97, 98, 99>>]>>}                      \* constructor=abc

NoValidation == [valid |-> TRUE, errors |-> <<>>, warnings |-> <<>>]

InitValidate ==
    /\ \E c \in Configs :
          /\ ConfigValid(c)
          /\ MASTER_KEY = c.active
          /\ PREVIOUS_MASTER_KEYS = c.previous
          /\ c.previous = <<>>
    /\ gcm = <<>>
    /\ \E envVars \in EnvVars, key \in SchemaKeys, field \in SchemaFields,
          allowExtra \in {<<>>, <<TRUE>>} :
          io = [op |-> "env", envVars |-> envVars,
                schema |-> [fields |-> <<[key |-> key, value |-> field]>>],
                options |-> [allowExtra |-> allowExtra], result |-> NoValidation]
    /\ envVariable = <<>>
    /\ envVariableVersion = <<>>
    /\ rot = RotIdle
    /\ api = ApiIdle
    /\ start = [vars |-> <<>>, vers |-> <<>>]

CallValidateEnv ==
    /\ io.op = "env"
    /\ io' = [io EXCEPT !.op = "validateEnv",
                        !.result = validateEnv(io.envVars, io.schema, io.options)]
    /\ UNCHANGED gcm
    /\ StoreUnchanged

NextValidate == CallValidateEnv

SpecValidate == InitValidate /\ [][NextValidate]_vars

----------------------------------------------------------------------------
(* Claims about the schema validator (SpecValidate) *)

ErrorsOf(key) ==
    \* the types of the errors reported for the key, in order
    LET RECURSIVE types(_)
        types(i) ==
            IF i > Len(io.result.errors) THEN <<>>
            ELSE (IF io.result.errors[i].key = key
                  THEN <<io.result.errors[i].type>> ELSE <<>>) \o types(i + 1)
    IN  types(1)

Expected(key, field) ==
    \* the errors the ordering of the checks gives the field
    LET given == key \in Own(io.envVars)
        value == IF given THEN ValueOf(io.envVars, key) ELSE <<>>
    IN  IF Default(field.required, FALSE) /\ value = <<>> THEN <<"missing">>
        ELSE IF value = <<>> THEN <<>>
        ELSE IF field.type # <<>> /\ typeFails(value, field.type[1]) THEN <<"invalid_type">>
        ELSE (IF field.regex # <<>> /\ RegExpTest(field.regex[1], value) = "nomatch"
              THEN <<"invalid_format">> ELSE <<>>)
             \o (IF field.minLength # <<>> /\ Len(value) < field.minLength[1]
                 THEN <<"too_short">> ELSE <<>>)
             \o (IF field.maxLength # <<>> /\ Len(value) > field.maxLength[1]
                 THEN <<"too_long">> ELSE <<>>)

CheckOrdering(fields) ==
    \A i \in 1..Len(fields) : ErrorsOf(fields[i].key) = Expected(fields[i].key, fields[i].value)

\* C20: per schema field, a required field whose value is missing or the
\* empty string yields exactly one error, of type missing, and no other
\* error for the field; otherwise a present non-empty value that fails its
\* type check yields exactly one error, of type invalid_type, and none of
\* invalid_format, too_short, too_long; only when the type check passes are
\* the regex and then the minLength and maxLength checks applied.
C20_CheckOrdering ==
    io.op = "validateEnv" => CheckOrdering(io.schema.fields)

ExtraErrors(key) ==
    Cardinality({i \in 1..Len(io.result.errors) :
                    io.result.errors[i].key = key /\ io.result.errors[i].type = "extra"})

ExtraKeysReported(keys) ==
    /\ \A key \in keys :
          ExtraErrors(key) = (IF ~Default(io.options.allowExtra, FALSE)
                                    /\ key \notin Own(io.schema.fields)
                              THEN 1 ELSE 0)
    /\ \A key \in Own(io.schema.fields) : ExtraErrors(key) = 0
    /\ io.result.valid = (io.result.errors = <<>>)

\* C21: with allowExtra false (the default) every variable key that is not
\* a schema field yields exactly one extra error and no schema field key
\* yields one; with allowExtra true there is no extra error; valid is true
\* if and only if the errors list is empty.
C21_ExtraKeys ==
    io.op = "validateEnv" => ExtraKeysReported(Own(io.envVars))

----------------------------------------------------------------------------
(* The example file: parseEnvExample and generateEnvExample.  A field of   *)
(* an example schema is [required, default, description], each <<>> when   *)
(* absent or undefined and <<v>> when given; fields is a map as above.     *)

ExampleField(required, default, description) ==
    [required |-> required, default |-> default, description |-> description]

setProperty(obj, key, value) ==
    \* obj[key] = value on an object literal: assigning an object to
    \* __proto__ replaces the prototype and adds no own property
    IF key = <<95, 95, 112, 114, 111, 116, 111, 95, 95>> THEN obj
    ELSE IF hasOwn(obj, key)
    THEN [i \in 1..Len(obj) |-> IF obj[i].key = key THEN [key |-> key, value |-> value]
                                ELSE obj[i]]
    ELSE Append(obj, [key |-> key, value |-> value])

exampleLine(fields, trimmed) ==
    \* the body of the loop over the lines
    IF trimmed = <<>> \/ startsWith(trimmed, <<35>>) THEN fields
    ELSE LET equalIndex == indexOf(trimmed, <<61>>)
         IN  IF equalIndex = -1
             THEN setProperty(fields, trimmed, ExampleField(<<TRUE>>, <<>>, <<>>))
             ELSE LET value == trim(Slice(trimmed, equalIndex + 1, Len(trimmed)))
                  IN  setProperty(fields, trim(Slice(trimmed, 0, equalIndex)),
                                  ExampleField(<<FALSE>>,
                                               IF value = <<>> THEN <<>> ELSE <<value>>,
                                               <<>>))

RECURSIVE exampleLines(_, _, _)
exampleLines(fields, lines, i) ==
    IF i > Len(lines) THEN fields
    ELSE CHOOSE out \in {exampleLines(f, lines, i + 1) :
                            f \in {exampleLine(fields, trim(lines[i]))}} : TRUE

parseEnvExample(content) ==
    [fields |-> exampleLines(<<>>, split(content, 10), 1)]

generateField(key, field) ==
    \* the lines pushed for one field
    (IF field.description # <<>> /\ field.description[1] # <<>>
     THEN << <<35, 32>> \o field.description[1] >> ELSE <<>>)
      \o << IF Default(field.required, FALSE) THEN key \o <<61>>
            ELSE key \o <<61>> \o Default(field.default, <<>>) >>
      \o << <<>> >>

RECURSIVE generateLines(_, _)
generateLines(fields, i) ==
    IF i > Len(fields) THEN <<>>
    ELSE generateField(fields[i].key, fields[i].value) \o generateLines(fields, i + 1)

generateEnvExample(schema) == join(generateLines(schema.fields, 1), 10)

----------------------------------------------------------------------------
(* parseEnvExample called on drawn contents, and on the example generated  *)
(* from drawn schemas                                                      *)

ExampleLineSet ==
    { <<>>,                                              \* ''
      <<35, 32, 99>>,                                    \* '# c'
      <<65>>,                                            \* 'A'
      <<65, 61, 49>>,                                    \* 'A=1'
      <<32, 66, 95, 49, 32, 61, 32, 120, 32, 121, 32>>,  \* ' B_1 = x y '
      <<65, 61>>,                                        \* 'A='
      <<95, 95, 112, 114, 111, 116, 111, 95, 95>> }      \* '__proto__'

ExampleContents == {join(lines, 10) : lines \in SeqsUpTo(ExampleLineSet, MaxLines)}

ExampleFields ==
    {ExampleField(r, d, c) : r \in {<<>>, <<TRUE>>, <<FALSE>>},
                             d \in {<<>>, <<<<49>>>>},
                             c \in {<<>>, <<<<100>>>>}}

ExampleSchemas ==
    {[fields |-> <<>>]}
        \cup {[fields |-> <<[key |-> <<65>>, value |-> f]>>] : f \in ExampleFields}
        \cup {[fields |-> <<[key |-> <<65>>, value |-> f],
                            [key |-> <<66, 95, 49>>, value |-> g]>>] :
                 f \in ExampleFields, g \in ExampleFields}

InitExample ==
    /\ \E c \in Configs :
          /\ ConfigValid(c)
          /\ MASTER_KEY = c.active
          /\ PREVIOUS_MASTER_KEYS = c.previous
          /\ c.previous = <<>>
    /\ gcm = <<>>
    /\ \/ \E content \in ExampleContents :
             io = [op |-> "content", schema |-> [fields |-> <<>>], content |-> content,
                   result |-> [fields |-> <<>>]]
       \/ \E schema \in ExampleSchemas :
             io = [op |-> "schema", schema |-> schema, content |-> <<>>,
                   result |-> [fields |-> <<>>]]
    /\ envVariable = <<>>
    /\ envVariableVersion = <<>>
    /\ rot = RotIdle
    /\ api = ApiIdle
    /\ start = [vars |-> <<>>, vers |-> <<>>]

CallGenerateEnvExample ==
    /\ io.op = "schema"
    /\ io' = [io EXCEPT !.op = "generated", !.content = generateEnvExample(io.schema)]
    /\ UNCHANGED gcm
    /\ StoreUnchanged

CallParseEnvExample ==
    /\ io.op \in {"content", "generated"}
    /\ io' = [io EXCEPT !.op = IF io.op = "content" THEN "parsed" ELSE "reparsed",
                        !.result = parseEnvExample(io.content)]
    /\ UNCHANGED gcm
    /\ StoreUnchanged

NextExample == CallGenerateEnvExample \/ CallParseEnvExample

SpecExample == InitExample /\ [][NextExample]_vars

----------------------------------------------------------------------------
(* Claims about the example file (SpecExample) *)

ExampleLinesOf(content) ==
    \* the trimmed non-blank, non-comment lines of the content, with their
    \* positions
    LET lines == split(content, 10)
    IN  {[at |-> i, line |-> trim(lines[i])] : i \in 1..Len(lines)}
            \ {x \in {[at |-> i, line |-> trim(lines[i])] : i \in 1..Len(lines)} :
                  x.line = <<>> \/ x.line[1] = 35}

KeyOfLine(line) ==
    IF \E i \in 1..Len(line) : line[i] = 61
    THEN trim(SubSeq(line, 1, Min({i \in 1..Len(line) : line[i] = 61}) - 1))
    ELSE line

FieldOfLine(line) ==
    IF \E i \in 1..Len(line) : line[i] = 61
    THEN LET value == trim(SubSeq(line, Min({i \in 1..Len(line) : line[i] = 61}) + 1,
                                  Len(line)))
         IN  ExampleField(<<FALSE>>, IF value = <<>> THEN <<>> ELSE <<value>>, <<>>)
    ELSE ExampleField(<<TRUE>>, <<>>, <<>>)

LinesBecomeFields(xs) ==
    \* every line of xs has its field, which is the one of the key's last
    \* line, and there is no other field
    /\ \A x \in xs :
          /\ hasOwn(io.result.fields, KeyOfLine(x.line))
          /\ (\A y \in xs : KeyOfLine(y.line) = KeyOfLine(x.line) => y.at <= x.at)
                => ValueOf(io.result.fields, KeyOfLine(x.line)) = FieldOfLine(x.line)
    /\ \A i \in 1..Len(io.result.fields) :
          /\ \E x \in xs : KeyOfLine(x.line) = io.result.fields[i].key
          /\ \A j \in 1..Len(io.result.fields) :
                io.result.fields[j].key = io.result.fields[i].key => j = i

\* C22: parseEnvExample maps every non-blank, non-comment line to one schema
\* field: a bare KEY line becomes {required: true} with no default, and a
\* KEY=value line becomes {required: false} with the trimmed value as
\* default, or undefined when the value is empty.
C22_ParseEnvExample ==
    io.op = "parsed" => LinesBecomeFields(ExampleLinesOf(io.content))

RequiredKeys(fields) ==
    {fields[i].key : i \in {j \in 1..Len(fields) : Default(fields[j].value.required, FALSE)}}

\* C28: for every schema, parseEnvExample(generateEnvExample(schema)) marks
\* as required exactly the fields the schema marks as required: the 'KEY='
\* line generateEnvExample emits for a required field is read back as a
\* required field.
C28_ExampleRoundTrip ==
    io.op = "reparsed" => RequiredKeys(io.result.fields) = RequiredKeys(io.schema.fields)

----------------------------------------------------------------------------
(* isEncrypted *)

isEncrypted(value) ==
    IF value = <<>> \/ Len(value) < 44 THEN FALSE
    ELSE \E decoded \in {Base64Decode(value)} :
            Len(decoded) >= NONCE_LENGTH + TAG_LENGTH + 1

(* isEncrypted called on blobs of encrypt and on drawn strings *)

IsEncryptedValues ==
    { <<>>,                                                      \* ''
      <<104, 101, 108, 108, 111, 32, 119, 111, 114, 108, 100>>,  \* 'hello world'
      <<110, 111, 116, 33, 118, 97, 108, 105, 100, 64, 98, 97, 115, 101, 54, 52, 35>>,
                                                                 \* 'not!valid@base64#'
      Rep(33, 48),                                               \* '!'.repeat(48)
      Rep(65, 43) }                                              \* 'A'.repeat(43)
        \cup {Base64Encode(Rep(7, n)) : n \in 27..34}

InitIsEncrypted ==
    /\ \E c \in Configs :
          /\ ConfigValid(c)
          /\ MASTER_KEY = c.active
          /\ PREVIOUS_MASTER_KEYS = c.previous
          /\ c.previous = <<>>
    /\ gcm = <<>>
    /\ \/ \E p \in Plaintexts, k \in Keys :
             /\ validateMasterKey(k).valid
             /\ io = [op |-> "plaintext", plaintext |-> p, key |-> k, value |-> <<>>,
                      encrypted |-> FALSE, result |-> FALSE]
       \/ \E value \in IsEncryptedValues :
             io = [op |-> "value", plaintext |-> <<>>, key |-> <<>>, value |-> value,
                   encrypted |-> FALSE, result |-> FALSE]
    /\ envVariable = <<>>
    /\ envVariableVersion = <<>>
    /\ rot = RotIdle
    /\ api = ApiIdle
    /\ start = [vars |-> <<>>, vers |-> <<>>]

CallEncryptFirst(rNonce, rSalt) ==
    /\ io.op = "plaintext"
    /\ \E e \in {encrypt(io.plaintext, io.key, rNonce, rSalt, gcm)} :
          /\ io' = [io EXCEPT !.op = "value", !.value = e.blob, !.encrypted = TRUE]
          /\ gcm' = e.gcm
    /\ StoreUnchanged

CallIsEncrypted ==
    /\ io.op = "value"
    /\ io' = [io EXCEPT !.op = "isEncrypted", !.result = isEncrypted(io.value)]
    /\ UNCHANGED gcm
    /\ StoreUnchanged

NextIsEncrypted ==
    \/ \E rNonce \in Randoms, rSalt \in Randoms : CallEncryptFirst(rNonce, rSalt)
    \/ CallIsEncrypted

SpecIsEncrypted == InitIsEncrypted /\ [][NextIsEncrypted]_vars

----------------------------------------------------------------------------
(* Claims about isEncrypted (SpecIsEncrypted) *)

IsBase64(s) ==
    \* s is the base64 text of the bytes it decodes to
    Base64Encode(Base64Decode(s)) = s

\* C23: isEncrypted(v) is true for every string v that is valid base64 and
\* decodes to at least 29 bytes (nonce 12 + tag 16 + 1), in particular for
\* the blob encrypt(p, k) of every non-empty plaintext p under every valid
\* key k, and it is false for the empty string.
C23_IsEncrypted ==
    io.op = "isEncrypted" =>
        /\ (IsBase64(io.value)
              /\ Len(Base64Decode(io.value)) >= NONCE_LENGTH + TAG_LENGTH + 1)
             => io.result
        /\ (io.encrypted /\ io.plaintext # <<>>) => io.result
        /\ io.value = <<>> => ~io.result

----------------------------------------------------------------------------
(* maskValue *)

maskValueStrict(value, visibleChars) ==
    IF Len(value) < Default(visibleChars, 4) * 2
    THEN Rep(42, Len(value))
    ELSE Slice(value, 0, Default(visibleChars, 4))
             \o Rep(42, Len(value) - Default(visibleChars, 4) * 2)
             \o Slice(value, Len(value) - Default(visibleChars, 4), Len(value))

maskValue(value, visibleChars) ==
    \* visibleChars is <<>> when the argument is left out
    IF Len(value) <= Default(visibleChars, 4) * 2
    THEN Rep(42, Len(value))
    ELSE Slice(value, 0, Default(visibleChars, 4))
             \o Rep(42, Len(value) - Default(visibleChars, 4) * 2)
             \o Slice(value, Len(value) - Default(visibleChars, 4), Len(value))

(* maskValue called on drawn values *)

MaxMaskLen == 6
MaxVisible == 3

MaskValues ==
    \* every string of 'a' and '*' up to MaxMaskLen characters, and the
    \* values of the tests
    SeqsUpTo({97, 42}, MaxMaskLen)
        \cup { <<97, 98, 99>>,                                            \* 'abc'
               <<97, 98, 99, 100, 101, 102, 103, 104>>,                   \* 'abcdefgh'
               <<115, 117, 112, 101, 114, 115, 101, 99, 114, 101, 116>> } \* 'supersecret'

InitMask ==
    /\ \E c \in Configs :
          /\ ConfigValid(c)
          /\ MASTER_KEY = c.active
          /\ PREVIOUS_MASTER_KEYS = c.previous
          /\ c.previous = <<>>
    /\ gcm = <<>>
    /\ \E value \in MaskValues, visibleChars \in {<<>>} \cup {<<v>> : v \in 0..MaxVisible} :
          io = [op |-> "value", value |-> value, visibleChars |-> visibleChars,
                result |-> <<>>]
    /\ envVariable = <<>>
    /\ envVariableVersion = <<>>
    /\ rot = RotIdle
    /\ api = ApiIdle
    /\ start = [vars |-> <<>>, vers |-> <<>>]

CallMaskValue ==
    /\ io.op = "value"
    /\ io' = [io EXCEPT !.op = "maskValue", !.result = maskValue(io.value, io.visibleChars)]
    /\ UNCHANGED gcm
    /\ StoreUnchanged

NextMask == CallMaskValue

SpecMask == InitMask /\ [][NextMask]_vars

----------------------------------------------------------------------------
(* Claims about maskValue (SpecMask) *)

MaskedAs(value, v, result) ==
    /\ Len(result) = Len(value)
    /\ IF Len(value) <= 2 * v
       THEN \A i \in 1..Len(result) : result[i] = 42
       ELSE /\ \A i \in 1..v : result[i] = value[i]
            /\ \A i \in (v + 1)..(Len(value) - v) : result[i] = 42
            /\ \A i \in (Len(value) - v + 1)..Len(value) : result[i] = value[i]

----------------------------------------------------------------------------
(* Claims about requests that interleave with a run (SpecOnline) *)

UpsertedSinceRead(item) ==
    \* the row the script read as item has since been written by a PUT
    \* upsert: it holds another value than the one read, and that value is a
    \* ciphertext of the upserted plaintext
    /\ item.id \in Ids(envVariable)
    /\ envVariable[item.id].value # item.value
    /\ \E w \in api.writes :
          /\ w.table = "EnvVariable"
          /\ w.value = envVariable[item.id].value
    /\ Plain(envVariable, item.id) = Returned(ApiValue)

WritesBack(item) ==
    \* the step is the script's update of the row it read as item
    /\ rot.pc = "varsItem"
    /\ rot' # rot
    /\ item = rot.batch[rot.idx]
    /\ item.id \in Ids(envVariable')

\* C25: when a PUT upsert of a variable completes after the script has read
\* that variable's row in a batch and before the script writes the row
\* back, the plaintext stored for the variable after the script's write,
\* and so after the run, is the upserted value and not the one the script
\* read.
C25_NoLostUpdate ==
    [][\A item \in {rot.batch[i] : i \in 1..Len(rot.batch)} :
          (WritesBack(item) /\ UpsertedSinceRead(item))
             => decryptValue(envVariable'[item.id].value, gcm') = Returned(ApiValue)]_vars

\* C26: when requests interleave with a run of the script, then once the
\* run has completed no EnvVariable value needs a previous key: every one
\* opens with the active key, also after a restore that copied a version's
\* stored ciphertext into the variable while the run was under way.
C26_CompleteUnderInterleaving ==
    (rot.completed /\ \A w \in api.writes : w.pc # "done")
        => \A id \in Ids(envVariable) : OpensWithActiveKey(envVariable[id].value)

----------------------------------------------------------------------------
(* POST /projects/:id/envs/:env/import with its response *)

postImport(r) ==
    \* the handler of importEnv, with the reply it sends
    /\ io.op = "request"
    /\ api.calls < api.limit
    /\ \E parsed \in {parseEnv(io.content, NoOptions)} :
          \E a \in {importEntries([vars |-> envVariable, vers |-> envVariableVersion,
                                   gcm |-> gcm, variableValues |-> {},
                                   versionValues |-> {}, results |-> NoResults],
                                  parsed.entries, 1, io.overwrite, r)} :
              /\ envVariable' = a.vars
              /\ envVariableVersion' = a.vers
              /\ gcm' = a.gcm
              /\ api' = Written(a.variableValues, a.versionValues)
              /\ io' = [io EXCEPT !.op = "response", !.status = 200,
                                  !.results = a.results]
    /\ UNCHANGED <<MASTER_KEY, PREVIOUS_MASTER_KEYS, rot, start>>

PostedContents ==
    ImportContents
        \cup { <<75, 49, 61, 120, 10, 75, 49, 61, 121>>,       \* K1=x, K1=y
               <<75, 51, 61, 97, 10, 75, 50, 61, 98, 10, 75, 51, 61, 99>> }
                                                               \* K3=a, K2=b, K3=c

InitImport ==
    \* a store of up to MaxOnlineVars variables and one version, and a request
    /\ \E c \in Configs :
          /\ ConfigValid(c)
          /\ MASTER_KEY = c.active
          /\ PREVIOUS_MASTER_KEYS = c.previous
          /\ \E nVars \in 0..MaxOnlineVars : InitStore(c, nVars, 1, 0)
    /\ \E content \in PostedContents, overwrite \in BOOLEAN :
          io = [op |-> "request", content |-> content, overwrite |-> overwrite,
                status |-> 0, results |-> NoResults]
    /\ rot = RotIdle
    /\ api = ApiIdle
    /\ start = [vars |-> envVariable, vers |-> envVariableVersion]

NextImport == \E r \in Randoms : postImport(r)

SpecImport == InitImport /\ [][NextImport]_vars

----------------------------------------------------------------------------
(* Claims about import (SpecImport) *)

Occurrences(entries, key) == {i \in 1..Len(entries) : entries[i].key = key}

LastOccurrence(entries, key) == entries[Max(Occurrences(entries, key))].value

StoresLastOccurrence(entries) ==
    \* every key of the content that no variable had before holds the value
    \* of its last occurrence
    \A i \in 1..Len(entries) :
        findUnique(start.vars, entries[i].key) = 0
           => /\ findUnique(envVariable, entries[i].key) # 0
              /\ Plain(envVariable, findUnique(envVariable, entries[i].key))
                    = Returned(LastOccurrence(entries, entries[i].key))

\* C27: after POST import of a content, for either value of overwrite, the
\* value stored for a key that did not exist before is the value of the
\* key's last occurrence in the content, as in the parser's lookup map, and
\* imported + updated + skipped is the number of parsed entries.
C27_ImportLastOccurrence ==
    io.op = "response" =>
        \A parsed \in {parseEnv(io.content, NoOptions)} :
            /\ StoresLastOccurrence(parsed.entries)
            /\ io.results.imported + io.results.updated + io.results.skipped
                  = Len(parsed.entries)

----------------------------------------------------------------------------
(* routes/auth.ts: the login throttle.  The LoginThrottle row of one       *)
(* ip:email key is <<>> when there is none; blockedUntilMs is <<>> when    *)
(* null.  MAX_LOGIN_ATTEMPTS, LOGIN_ATTEMPT_WINDOW_MS and                  *)
(* LOGIN_BLOCK_DURATION_MS are read from the environment; the clock counts *)
(* in units of which the window and the block last a few.                  *)

ThrottleRow(count, windowStartMs, blockedUntilMs) ==
    [count |-> count, windowStartMs |-> windowStartMs, blockedUntilMs |-> blockedUntilMs]

getLoginAttemptState(current, nowMs) ==
    \* the state returned and the row after the call
    IF current = <<>> \/ current[1].windowStartMs + io.LOGIN_ATTEMPT_WINDOW_MS <= nowMs
    THEN [state |-> ThrottleRow(0, nowMs, <<>>), row |-> <<ThrottleRow(0, nowMs, <<>>)>>]
    ELSE [state |-> current[1], row |-> current]

registerLoginFailure(current, nowMs) ==
    \* the row after the upsert
    CHOOSE row \in {<<ThrottleRow(s.state.count + 1, s.state.windowStartMs,
                                  IF s.state.count + 1 >= io.MAX_LOGIN_ATTEMPTS
                                  THEN <<nowMs + io.LOGIN_BLOCK_DURATION_MS>>
                                  ELSE s.state.blockedUntilMs)>> :
                       s \in {getLoginAttemptState(current, nowMs)}} : TRUE

clearLoginFailures(current) == <<>>

issueSession(table, userId, nowMs) ==
    \* a session with a fresh refresh token: the tokens are numbered
    Append(table, [userId |-> userId, refreshHash |-> Len(table) + 1,
                   expiresAt |-> nowMs + io.REFRESH_TOKEN_EXPIRES, revokedAt |-> <<>>])

MaxNow == 6
MaxLogins == 4

AuthUnchanged == UNCHANGED <<MASTER_KEY, PREVIOUS_MASTER_KEYS, gcm, envVariable,
                             envVariableVersion, rot, api, start>>

Answered(status, checked) ==
    \* the request's time, its answer, whether the password was checked, and
    \* the time of the last failure that set a block before the request
    [at |-> io.now, status |-> status, checked |-> checked, trigger |-> io.trigger]

InitLogin ==
    /\ \E c \in Configs :
          /\ ConfigValid(c)
          /\ MASTER_KEY = c.active
          /\ PREVIOUS_MASTER_KEYS = c.previous
          /\ c.previous = <<>>
    /\ gcm = <<>>
    /\ \E max \in 2..3, window \in 2..3, block \in 2..3 :
          io = [now |-> 0, MAX_LOGIN_ATTEMPTS |-> max, LOGIN_ATTEMPT_WINDOW_MS |-> window,
                LOGIN_BLOCK_DURATION_MS |-> block, REFRESH_TOKEN_EXPIRES |-> MaxNow,
                loginThrottle |-> <<>>, session |-> <<>>, pc |-> "idle", logins |-> 0,
                trigger |-> -1,
                last |-> [at |-> -1, status |-> 0, checked |-> FALSE, trigger |-> -1]]
    /\ envVariable = <<>>
    /\ envVariableVersion = <<>>
    /\ rot = RotIdle
    /\ api = ApiIdle
    /\ start = [vars |-> <<>>, vers |-> <<>>]

login(validPassword) ==
    \* POST /auth/login up to its answer, or up to the call of
    \* registerLoginFailure when the user or the password is wrong
    /\ io.pc = "idle"
    /\ io.logins < MaxLogins
    /\ \E attempt \in {getLoginAttemptState(io.loginThrottle, io.now)} :
          IF attempt.state.blockedUntilMs # <<>> /\ attempt.state.blockedUntilMs[1] > io.now
          THEN io' = [io EXCEPT !.loginThrottle = attempt.row, !.logins = @ + 1,
                                !.last = Answered(429, FALSE)]
          ELSE IF ~validPassword
          THEN io' = [io EXCEPT !.loginThrottle = attempt.row, !.logins = @ + 1,
                                !.pc = "registerLoginFailure",
                                !.last = Answered(0, TRUE)]
          ELSE io' = [io EXCEPT !.loginThrottle = clearLoginFailures(attempt.row),
                                !.logins = @ + 1,
                                !.session = issueSession(@, 1, io.now),
                                !.last = Answered(200, TRUE)]
    /\ AuthUnchanged

loginFailure ==
    \* registerLoginFailure with its own Date.now(), and the 401
    /\ io.pc = "registerLoginFailure"
    /\ \E row \in {registerLoginFailure(io.loginThrottle, io.now)} :
          io' = [io EXCEPT !.loginThrottle = row, !.pc = "idle", !.last.status = 401,
                           !.trigger = IF row[1].count >= io.MAX_LOGIN_ATTEMPTS
                                       THEN io.now ELSE @]
    /\ AuthUnchanged

clock ==
    \* time passes
    /\ io.now < MaxNow
    /\ io' = [io EXCEPT !.now = @ + 1]
    /\ AuthUnchanged

NextLogin ==
    \/ \E validPassword \in BOOLEAN : login(validPassword)
    \/ loginFailure
    \/ clock

SpecLogin == InitLogin /\ [][NextLogin]_vars

----------------------------------------------------------------------------
(* Claims about the login throttle (SpecLogin) *)

\* C29: once the failure count of an ip:email key reaches
\* MAX_LOGIN_ATTEMPTS inside one attempt window, every later login for the
\* key is answered 429 without a check of the password until
\* LOGIN_BLOCK_DURATION_MS has passed since the failure that set the block;
\* the expiry of the attempt window does not lift the block earlier.
C29_LoginBlockDuration ==
    (io.last.trigger # -1 /\ io.last.at < io.last.trigger + io.LOGIN_BLOCK_DURATION_MS)
        => (io.last.status = 429 /\ ~io.last.checked)

----------------------------------------------------------------------------
(* routes/auth.ts: POST /auth/refresh and POST /auth/logout.  Every await  *)
(* of the refresh handler is a step, so that requests interleave.  A       *)
(* request's cookie is <<>> when it has none; the Session rows are in      *)
(* order of creation and a row's place is its id.                          *)

MaxRequests == 2

findSession(table, refreshHash) ==
    \* prisma.session.findUnique({ where: { refreshHash } }): the row with
    \* its id, <<>> when there is none
    IF \E id \in 1..Len(table) : table[id].refreshHash = refreshHash
    THEN <<[id |-> CHOOSE id \in 1..Len(table) : table[id].refreshHash = refreshHash,
            row |-> table[CHOOSE id \in 1..Len(table) : table[id].refreshHash = refreshHash]]>>
    ELSE <<>>

revoke(table, id, nowMs) == [table EXCEPT ![id].revokedAt = <<nowMs>>]

NewRequest(cookie) ==
    [pc |-> "start", cookie |-> cookie, session |-> <<>>, status |-> 0, issued |-> <<>>]

InitRefresh ==
    \* one session, live, expired or revoked, and the requests to come
    /\ \E c \in Configs :
          /\ ConfigValid(c)
          /\ MASTER_KEY = c.active
          /\ PREVIOUS_MASTER_KEYS = c.previous
          /\ c.previous = <<>>
    /\ gcm = <<>>
    /\ \E expiresAt \in {0, 2, MaxNow + 1}, revokedAt \in {<<>>, <<0>>},
          cookies \in [1..MaxRequests -> {<<>>, <<1>>}] :
          io = [now |-> 0, REFRESH_TOKEN_EXPIRES |-> MaxNow,
                session |-> <<[userId |-> 1, refreshHash |-> 1, expiresAt |-> expiresAt,
                               revokedAt |-> revokedAt]>>,
                requests |-> [r \in 1..MaxRequests |-> NewRequest(cookies[r])]]
    /\ envVariable = <<>>
    /\ envVariableVersion = <<>>
    /\ rot = RotIdle
    /\ api = ApiIdle
    /\ start = [vars |-> <<>>, vers |-> <<>>]

refresh(r) ==
    \* up to the answer of findUnique and the test on the session read
    /\ io.requests[r].pc = "start"
    /\ IF io.requests[r].cookie = <<>>
       THEN io' = [io EXCEPT !.requests[r].pc = "done", !.requests[r].status = 401]
       ELSE \E session \in {findSession(io.session, io.requests[r].cookie[1])} :
               IF session = <<>> \/ session[1].row.revokedAt # <<>>
               THEN io' = [io EXCEPT !.requests[r].pc = "done",
                                     !.requests[r].session = session,
                                     !.requests[r].status = 401]
               ELSE IF session[1].row.expiresAt <= io.now
               THEN io' = [io EXCEPT !.requests[r].pc = "revokeExpired",
                                     !.requests[r].session = session]
               ELSE io' = [io EXCEPT !.requests[r].pc = "revoke",
                                     !.requests[r].session = session]
    /\ AuthUnchanged

refresh_revokeExpired(r) ==
    \* the update of the expired session, and the 401
    /\ io.requests[r].pc = "revokeExpired"
    /\ io' = [io EXCEPT !.session = revoke(@, io.requests[r].session[1].id, io.now),
                        !.requests[r].pc = "done", !.requests[r].status = 401]
    /\ AuthUnchanged

refresh_revoke(r) ==
    \* the update that revokes the session read
    /\ io.requests[r].pc = "revoke"
    /\ io' = [io EXCEPT !.session = revoke(@, io.requests[r].session[1].id, io.now),
                        !.requests[r].pc = "issueSession"]
    /\ AuthUnchanged

refresh_issueSession(r) ==
    \* issueSession, the cookies and the 200
    /\ io.requests[r].pc = "issueSession"
    /\ io' = [io EXCEPT !.session = issueSession(@, io.requests[r].session[1].row.userId,
                                                 io.now),
                        !.requests[r].pc = "done", !.requests[r].status = 200,
                        !.requests[r].issued = <<Len(io.session) + 1>>]
    /\ AuthUnchanged

logout ==
    \* POST /auth/logout with the first session's refresh token
    /\ io.session[1].revokedAt = <<>>
    /\ io' = [io EXCEPT !.session = revoke(@, 1, io.now)]
    /\ AuthUnchanged

NextRefresh ==
    \/ \E r \in 1..MaxRequests :
          \/ refresh(r)
          \/ refresh_revokeExpired(r)
          \/ refresh_revoke(r)
          \/ refresh_issueSession(r)
    \/ logout
    \/ clock

SpecRefresh == InitRefresh /\ [][NextRefresh]_vars

----------------------------------------------------------------------------
(* Claims about refresh (SpecRefresh) *)

Succeeded(refreshHash) ==
    {r \in 1..MaxRequests : io.requests[r].cookie = <<refreshHash>>
                            /\ io.requests[r].status = 200}

ReadDead(r) ==
    \* the session the request read was revoked or expired
    /\ io.requests[r].session # <<>>
    /\ \/ io.requests[r].session[1].row.revokedAt # <<>>
       \/ io.requests[r].pc = "revokeExpired"

\* C30: refresh tokens are single-use: in any interleaving of POST
\* /auth/refresh requests that present the same refresh token at most one
\* succeeds and issues a new session, every other one is answered 401, and
\* a token whose session is revoked or expired yields no new session.
C30_RefreshSingleUse ==
    /\ Cardinality(Succeeded(1)) <= 1
    /\ \A r \in 1..MaxRequests :
          /\ io.requests[r].pc = "done" => io.requests[r].status \in {200, 401}
          /\ ReadDead(r) => (io.requests[r].status # 200 /\ io.requests[r].issued = <<>>)
    /\ Len(io.session) <= 1 + Cardinality(Succeeded(1))

====
